---- MODULE Spec2Model ----
(***************************************************************************)
(* Ingestion of SAM.gov contract opportunities into the opportunities      *)
(* table: GlobalCountryManager (country identification over the region     *)
(* taxonomy) and GlobalDatabaseManager (initialize_database,               *)
(* normalize_posted_date, insert_or_update_batch) of global_sam_utils.py.  *)
(*                                                                         *)
(* A text (a Python str) is a sequence of characters, each character a     *)
(* one-character string; the accented letters of the taxonomy are written  *)
(* by name ("a_tilde", "E_ACUTE", ...).  None, NaN and SQL NULL are the    *)
(* value None, which is no text.                                           *)
(***************************************************************************)
EXTENDS Integers, Sequences, FiniteSets, TLC

VARIABLES
  opportunities,  \* the rows of table opportunities, in id order
  df,             \* the chunk the caller holds (a sequence of CSV rows), or None
  phase,          \* "idle", "read" (chunk read), "ingested", "replayed"
  before,         \* the table as it was when df was read
  log,            \* per call made on df: the outcome of each row it processed
  faults,         \* per call made on df: the statements that raised in it
  returned,       \* what the last call returned: <<inserted, updated, skipped>>
  manager,        \* the GlobalCountryManager instance: its lookup structures
  module,         \* the copy of global_sam_utils the process imports
  loaded,         \* the number of table entries __init__ has gone through
  pop_country,    \* the text a caller has at hand for the country manager
  posted_date,    \* the PostedDate cell that comes with it
  result,         \* the last call made on the country manager
  workers,        \* the ingestion workers that run side by side, if any
  writer,         \* the worker whose connection holds the write lock, or 0
  batches,        \* two chunks given to two databases in opposite orders, if any
  replica,        \* the table of the second of those databases
  bootstrap,      \* the GlobalBootstrap instance of the process, or None
  progress_file,  \* the content of bootstrap_progress.json, or None without the file
  run             \* the locals of main and run_by_subregion in the process

vars == <<opportunities, df, phase, before, log, faults, returned,
          manager, module, loaded, pop_country, posted_date, result,
          workers, writer,
          batches, replica, bootstrap, progress_file, run>>

\* What the ingestion of a chunk leaves alone.
outside_ingestion ==
  <<manager, module, loaded, pop_country, posted_date, result, workers, writer,
   batches, replica, bootstrap, progress_file, run>>

----------------------------------------------------------------------------
(* Texts *)

None == <<"None">>

Min(S) == CHOOSE x \in S : \A y \in S : x <= y
Max(S) == CHOOSE x \in S : \A y \in S : x >= y

ascii_uppercase ==
  {"A","B","C","D","E","F","G","H","I","J","K","L","M",
   "N","O","P","Q","R","S","T","U","V","W","X","Y","Z"}

digits == {"0","1","2","3","4","5","6","7","8","9"}

whitespace == {" ", "\t", "\n"}

\* The lower-case letters of the model's alphabet and, at the same index,
\* what str.upper() makes of each.
lowercase_letters ==
  <<"a","b","c","d","e","f","g","h","i","j","k","l","m",
    "n","o","p","q","r","s","t","u","v","w","x","y","z",
    "a_tilde","e_acute","i_acute","o_circ","c_cedil","a_ring">>
uppercase_letters ==
  <<"A","B","C","D","E","F","G","H","I","J","K","L","M",
    "N","O","P","Q","R","S","T","U","V","W","X","Y","Z",
    "A_TILDE","E_ACUTE","I_ACUTE","O_CIRC","C_CEDIL","A_RING">>

Range(s) == {s[i] : i \in DOMAIN s}

\* str.upper(): character by character; a character that is no lower-case
\* letter is kept.
lower_to_upper ==
  [c \in Range(lowercase_letters) |->
     uppercase_letters[CHOOSE i \in DOMAIN lowercase_letters : lowercase_letters[i] = c]]
upper_char(c) == IF c \in DOMAIN lower_to_upper THEN lower_to_upper[c] ELSE c
str_upper(s) == SubSeq([i \in 1..Len(s) |-> upper_char(s[i])], 1, Len(s))

\* A strip() that trims nothing.
no_strip(s) == s

\* str.strip(): the text without its leading and trailing whitespace.
str_strip(s) ==
  LET keep == {i \in 1..Len(s) : s[i] \notin whitespace}
  IN  IF keep = {} THEN <<>> ELSE SubSeq(s, Min(keep), Max(keep))

\* str.isalpha(): not empty and letters only.
letters == Range(lowercase_letters) \cup Range(uppercase_letters)
str_isalpha(s) == Len(s) > 0 /\ \A i \in 1..Len(s) : s[i] \in letters

\* Python's `needle in hay` on two texts.
str_contains(hay, needle) ==
  \E i \in 0..(Len(hay) - Len(needle)) : SubSeq(hay, i + 1, i + Len(needle)) = needle

\* A split that finds no blank.
no_split(s) == s

\* str.split(' ')[0]: the text before the first blank.
split_first(s) ==
  LET blanks == {i \in 1..Len(s) : s[i] = " "}
  IN  IF blanks = {} THEN s ELSE SubSeq(s, 1, Min(blanks) - 1)

----------------------------------------------------------------------------
(* GlobalCountryManager: the taxonomy *)

\* The region names (the outer keys of GEOGRAPHIC_REGIONS), as texts.
RegionName ==
  [AFRICA |-> <<"A","F","R","I","C","A">>,
   AMERICAS |-> <<"A","M","E","R","I","C","A","S">>,
   ASIA |-> <<"A","S","I","A">>,
   MIDDLE_EAST |-> <<"M","I","D","D","L","E","_","E","A","S","T">>,
   EUROPE |-> <<"E","U","R","O","P","E">>]

\* The sub-region names (the inner keys of GEOGRAPHIC_REGIONS), as texts.
SubRegionName ==
  [Northern_Africa |-> <<"N","o","r","t","h","e","r","n"," ","A","f","r","i","c","a">>,
   Eastern_Africa |-> <<"E","a","s","t","e","r","n"," ","A","f","r","i","c","a">>,
   Middle_Africa |-> <<"M","i","d","d","l","e"," ","A","f","r","i","c","a">>,
   Southern_Africa |-> <<"S","o","u","t","h","e","r","n"," ","A","f","r","i","c","a">>,
   Western_Africa |-> <<"W","e","s","t","e","r","n"," ","A","f","r","i","c","a">>,
   Caribbean |-> <<"C","a","r","i","b","b","e","a","n">>,
   Central_America |-> <<"C","e","n","t","r","a","l"," ","A","m","e","r","i","c","a">>,
   Northern_America |-> <<"N","o","r","t","h","e","r","n"," ","A","m","e","r","i","c","a">>,
   South_America |-> <<"S","o","u","t","h"," ","A","m","e","r","i","c","a">>,
   Eastern_Asia |-> <<"E","a","s","t","e","r","n"," ","A","s","i","a">>,
   Southern_Asia |-> <<"S","o","u","t","h","e","r","n"," ","A","s","i","a">>,
   South_Eastern_Asia |-> <<"S","o","u","t","h","-","E","a","s","t","e","r","n"," ","A","s","i","a">>,
   Oceania |-> <<"O","c","e","a","n","i","a">>,
   Near_East |-> <<"N","e","a","r","-","E","a","s","t">>,
   Far_East |-> <<"F","a","r","-","E","a","s","t">>,
   Eastern_Europe |-> <<"E","a","s","t","e","r","n"," ","E","u","r","o","p","e">>,
   Northern_Europe |-> <<"N","o","r","t","h","e","r","n"," ","E","u","r","o","p","e">>,
   Southern_Europe |-> <<"S","o","u","t","h","e","r","n"," ","E","u","r","o","p","e">>,
   Western_Europe |-> <<"W","e","s","t","e","r","n"," ","E","u","r","o","p","e">>]

\* GEOGRAPHIC_REGIONS flattened in declaration order: one entry per country.
GEOGRAPHIC_REGIONS ==
  <<
    [name |-> <<"A","l","g","e","r","i","a">>, iso3 |-> <<"D","Z","A">>, region |-> RegionName.AFRICA, subregion |-> SubRegionName.Northern_Africa],
    [name |-> <<"E","g","y","p","t">>, iso3 |-> <<"E","G","Y">>, region |-> RegionName.AFRICA, subregion |-> SubRegionName.Northern_Africa],
    [name |-> <<"L","i","b","y","a">>, iso3 |-> <<"L","B","Y">>, region |-> RegionName.AFRICA, subregion |-> SubRegionName.Northern_Africa],
    [name |-> <<"M","a","u","r","i","t","a","n","i","a">>, iso3 |-> <<"M","R","T">>, region |-> RegionName.AFRICA, subregion |-> SubRegionName.Northern_Africa],
    [name |-> <<"M","o","r","o","c","c","o">>, iso3 |-> <<"M","A","R">>, region |-> RegionName.AFRICA, subregion |-> SubRegionName.Northern_Africa],
    [name |-> <<"S","u","d","a","n">>, iso3 |-> <<"S","D","N">>, region |-> RegionName.AFRICA, subregion |-> SubRegionName.Northern_Africa],
    [name |-> <<"T","u","n","i","s","i","a">>, iso3 |-> <<"T","U","N">>, region |-> RegionName.AFRICA, subregion |-> SubRegionName.Northern_Africa],
    [name |-> <<"W","e","s","t","e","r","n"," ","S","a","h","a","r","a">>, iso3 |-> <<"E","S","H">>, region |-> RegionName.AFRICA, subregion |-> SubRegionName.Northern_Africa],
    [name |-> <<"B","u","r","u","n","d","i">>, iso3 |-> <<"B","D","I">>, region |-> RegionName.AFRICA, subregion |-> SubRegionName.Eastern_Africa],
    [name |-> <<"C","o","m","o","r","o","s">>, iso3 |-> <<"C","O","M">>, region |-> RegionName.AFRICA, subregion |-> SubRegionName.Eastern_Africa],
    [name |-> <<"D","j","i","b","o","u","t","i">>, iso3 |-> <<"D","J","I">>, region |-> RegionName.AFRICA, subregion |-> SubRegionName.Eastern_Africa],
    [name |-> <<"E","r","i","t","r","e","a">>, iso3 |-> <<"E","R","I">>, region |-> RegionName.AFRICA, subregion |-> SubRegionName.Eastern_Africa],
    [name |-> <<"E","t","h","i","o","p","i","a">>, iso3 |-> <<"E","T","H">>, region |-> RegionName.AFRICA, subregion |-> SubRegionName.Eastern_Africa],
    [name |-> <<"K","e","n","y","a">>, iso3 |-> <<"K","E","N">>, region |-> RegionName.AFRICA, subregion |-> SubRegionName.Eastern_Africa],
    [name |-> <<"M","a","d","a","g","a","s","c","a","r">>, iso3 |-> <<"M","D","G">>, region |-> RegionName.AFRICA, subregion |-> SubRegionName.Eastern_Africa],
    [name |-> <<"M","a","l","a","w","i">>, iso3 |-> <<"M","W","I">>, region |-> RegionName.AFRICA, subregion |-> SubRegionName.Eastern_Africa],
    [name |-> <<"M","a","u","r","i","t","i","u","s">>, iso3 |-> <<"M","U","S">>, region |-> RegionName.AFRICA, subregion |-> SubRegionName.Eastern_Africa],
    [name |-> <<"M","o","z","a","m","b","i","q","u","e">>, iso3 |-> <<"M","O","Z">>, region |-> RegionName.AFRICA, subregion |-> SubRegionName.Eastern_Africa],
    [name |-> <<"R","w","a","n","d","a">>, iso3 |-> <<"R","W","A">>, region |-> RegionName.AFRICA, subregion |-> SubRegionName.Eastern_Africa],
    [name |-> <<"S","e","y","c","h","e","l","l","e","s">>, iso3 |-> <<"S","Y","C">>, region |-> RegionName.AFRICA, subregion |-> SubRegionName.Eastern_Africa],
    [name |-> <<"S","o","m","a","l","i","a">>, iso3 |-> <<"S","O","M">>, region |-> RegionName.AFRICA, subregion |-> SubRegionName.Eastern_Africa],
    [name |-> <<"S","o","u","t","h"," ","S","u","d","a","n">>, iso3 |-> <<"S","S","D">>, region |-> RegionName.AFRICA, subregion |-> SubRegionName.Eastern_Africa],
    [name |-> <<"T","a","n","z","a","n","i","a">>, iso3 |-> <<"T","Z","A">>, region |-> RegionName.AFRICA, subregion |-> SubRegionName.Eastern_Africa],
    [name |-> <<"U","g","a","n","d","a">>, iso3 |-> <<"U","G","A">>, region |-> RegionName.AFRICA, subregion |-> SubRegionName.Eastern_Africa],
    [name |-> <<"Z","a","m","b","i","a">>, iso3 |-> <<"Z","M","B">>, region |-> RegionName.AFRICA, subregion |-> SubRegionName.Eastern_Africa],
    [name |-> <<"Z","i","m","b","a","b","w","e">>, iso3 |-> <<"Z","W","E">>, region |-> RegionName.AFRICA, subregion |-> SubRegionName.Eastern_Africa],
    [name |-> <<"A","n","g","o","l","a">>, iso3 |-> <<"A","G","O">>, region |-> RegionName.AFRICA, subregion |-> SubRegionName.Middle_Africa],
    [name |-> <<"C","a","m","e","r","o","o","n">>, iso3 |-> <<"C","M","R">>, region |-> RegionName.AFRICA, subregion |-> SubRegionName.Middle_Africa],
    [name |-> <<"C","e","n","t","r","a","l"," ","A","f","r","i","c","a","n"," ","R","e","p","u","b","l","i","c">>, iso3 |-> <<"C","A","F">>, region |-> RegionName.AFRICA, subregion |-> SubRegionName.Middle_Africa],
    [name |-> <<"C","h","a","d">>, iso3 |-> <<"T","C","D">>, region |-> RegionName.AFRICA, subregion |-> SubRegionName.Middle_Africa],
    [name |-> <<"C","o","n","g","o">>, iso3 |-> <<"C","O","G">>, region |-> RegionName.AFRICA, subregion |-> SubRegionName.Middle_Africa],
    [name |-> <<"D","e","m","o","c","r","a","t","i","c"," ","R","e","p","u","b","l","i","c"," ","o","f"," ","t","h","e"," ","C","o","n","g","o">>, iso3 |-> <<"C","O","D">>, region |-> RegionName.AFRICA, subregion |-> SubRegionName.Middle_Africa],
    [name |-> <<"E","q","u","a","t","o","r","i","a","l"," ","G","u","i","n","e","a">>, iso3 |-> <<"G","N","Q">>, region |-> RegionName.AFRICA, subregion |-> SubRegionName.Middle_Africa],
    [name |-> <<"G","a","b","o","n">>, iso3 |-> <<"G","A","B">>, region |-> RegionName.AFRICA, subregion |-> SubRegionName.Middle_Africa],
    [name |-> <<"S","a_tilde","o"," ","T","o","m","e_acute"," ","a","n","d"," ","P","r","i_acute","n","c","i","p","e">>, iso3 |-> <<"S","T","P">>, region |-> RegionName.AFRICA, subregion |-> SubRegionName.Middle_Africa],
    [name |-> <<"B","o","t","s","w","a","n","a">>, iso3 |-> <<"B","W","A">>, region |-> RegionName.AFRICA, subregion |-> SubRegionName.Southern_Africa],
    [name |-> <<"E","s","w","a","t","i","n","i">>, iso3 |-> <<"S","W","Z">>, region |-> RegionName.AFRICA, subregion |-> SubRegionName.Southern_Africa],
    [name |-> <<"L","e","s","o","t","h","o">>, iso3 |-> <<"L","S","O">>, region |-> RegionName.AFRICA, subregion |-> SubRegionName.Southern_Africa],
    [name |-> <<"N","a","m","i","b","i","a">>, iso3 |-> <<"N","A","M">>, region |-> RegionName.AFRICA, subregion |-> SubRegionName.Southern_Africa],
    [name |-> <<"S","o","u","t","h"," ","A","f","r","i","c","a">>, iso3 |-> <<"Z","A","F">>, region |-> RegionName.AFRICA, subregion |-> SubRegionName.Southern_Africa],
    [name |-> <<"B","e","n","i","n">>, iso3 |-> <<"B","E","N">>, region |-> RegionName.AFRICA, subregion |-> SubRegionName.Western_Africa],
    [name |-> <<"B","u","r","k","i","n","a"," ","F","a","s","o">>, iso3 |-> <<"B","F","A">>, region |-> RegionName.AFRICA, subregion |-> SubRegionName.Western_Africa],
    [name |-> <<"C","a","b","o"," ","V","e","r","d","e">>, iso3 |-> <<"C","P","V">>, region |-> RegionName.AFRICA, subregion |-> SubRegionName.Western_Africa],
    [name |-> <<"C","o_circ","t","e"," ","d","'","I","v","o","i","r","e">>, iso3 |-> <<"C","I","V">>, region |-> RegionName.AFRICA, subregion |-> SubRegionName.Western_Africa],
    [name |-> <<"G","a","m","b","i","a">>, iso3 |-> <<"G","M","B">>, region |-> RegionName.AFRICA, subregion |-> SubRegionName.Western_Africa],
    [name |-> <<"G","h","a","n","a">>, iso3 |-> <<"G","H","A">>, region |-> RegionName.AFRICA, subregion |-> SubRegionName.Western_Africa],
    [name |-> <<"G","u","i","n","e","a">>, iso3 |-> <<"G","I","N">>, region |-> RegionName.AFRICA, subregion |-> SubRegionName.Western_Africa],
    [name |-> <<"G","u","i","n","e","a","-","B","i","s","s","a","u">>, iso3 |-> <<"G","N","B">>, region |-> RegionName.AFRICA, subregion |-> SubRegionName.Western_Africa],
    [name |-> <<"L","i","b","e","r","i","a">>, iso3 |-> <<"L","B","R">>, region |-> RegionName.AFRICA, subregion |-> SubRegionName.Western_Africa],
    [name |-> <<"M","a","l","i">>, iso3 |-> <<"M","L","I">>, region |-> RegionName.AFRICA, subregion |-> SubRegionName.Western_Africa],
    [name |-> <<"N","i","g","e","r">>, iso3 |-> <<"N","E","R">>, region |-> RegionName.AFRICA, subregion |-> SubRegionName.Western_Africa],
    [name |-> <<"N","i","g","e","r","i","a">>, iso3 |-> <<"N","G","A">>, region |-> RegionName.AFRICA, subregion |-> SubRegionName.Western_Africa],
    [name |-> <<"S","e","n","e","g","a","l">>, iso3 |-> <<"S","E","N">>, region |-> RegionName.AFRICA, subregion |-> SubRegionName.Western_Africa],
    [name |-> <<"S","i","e","r","r","a"," ","L","e","o","n","e">>, iso3 |-> <<"S","L","E">>, region |-> RegionName.AFRICA, subregion |-> SubRegionName.Western_Africa],
    [name |-> <<"T","o","g","o">>, iso3 |-> <<"T","G","O">>, region |-> RegionName.AFRICA, subregion |-> SubRegionName.Western_Africa],
    [name |-> <<"A","n","t","i","g","u","a"," ","a","n","d"," ","B","a","r","b","u","d","a">>, iso3 |-> <<"A","T","G">>, region |-> RegionName.AMERICAS, subregion |-> SubRegionName.Caribbean],
    [name |-> <<"A","r","u","b","a">>, iso3 |-> <<"A","B","W">>, region |-> RegionName.AMERICAS, subregion |-> SubRegionName.Caribbean],
    [name |-> <<"B","a","h","a","m","a","s">>, iso3 |-> <<"B","H","S">>, region |-> RegionName.AMERICAS, subregion |-> SubRegionName.Caribbean],
    [name |-> <<"B","a","r","b","a","d","o","s">>, iso3 |-> <<"B","R","B">>, region |-> RegionName.AMERICAS, subregion |-> SubRegionName.Caribbean],
    [name |-> <<"C","u","b","a">>, iso3 |-> <<"C","U","B">>, region |-> RegionName.AMERICAS, subregion |-> SubRegionName.Caribbean],
    [name |-> <<"C","u","r","a","c_cedil","a","o">>, iso3 |-> <<"C","U","W">>, region |-> RegionName.AMERICAS, subregion |-> SubRegionName.Caribbean],
    [name |-> <<"D","o","m","i","n","i","c","a">>, iso3 |-> <<"D","M","A">>, region |-> RegionName.AMERICAS, subregion |-> SubRegionName.Caribbean],
    [name |-> <<"D","o","m","i","n","i","c","a","n"," ","R","e","p","u","b","l","i","c">>, iso3 |-> <<"D","O","M">>, region |-> RegionName.AMERICAS, subregion |-> SubRegionName.Caribbean],
    [name |-> <<"G","r","e","n","a","d","a">>, iso3 |-> <<"G","R","D">>, region |-> RegionName.AMERICAS, subregion |-> SubRegionName.Caribbean],
    [name |-> <<"H","a","i","t","i">>, iso3 |-> <<"H","T","I">>, region |-> RegionName.AMERICAS, subregion |-> SubRegionName.Caribbean],
    [name |-> <<"J","a","m","a","i","c","a">>, iso3 |-> <<"J","A","M">>, region |-> RegionName.AMERICAS, subregion |-> SubRegionName.Caribbean],
    [name |-> <<"P","u","e","r","t","o"," ","R","i","c","o">>, iso3 |-> <<"P","R","I">>, region |-> RegionName.AMERICAS, subregion |-> SubRegionName.Caribbean],
    [name |-> <<"S","a","i","n","t"," ","K","i","t","t","s"," ","a","n","d"," ","N","e","v","i","s">>, iso3 |-> <<"K","N","A">>, region |-> RegionName.AMERICAS, subregion |-> SubRegionName.Caribbean],
    [name |-> <<"S","a","i","n","t"," ","L","u","c","i","a">>, iso3 |-> <<"L","C","A">>, region |-> RegionName.AMERICAS, subregion |-> SubRegionName.Caribbean],
    [name |-> <<"S","a","i","n","t"," ","V","i","n","c","e","n","t"," ","a","n","d"," ","t","h","e"," ","G","r","e","n","a","d","i","n","e","s">>, iso3 |-> <<"V","C","T">>, region |-> RegionName.AMERICAS, subregion |-> SubRegionName.Caribbean],
    [name |-> <<"T","r","i","n","i","d","a","d"," ","a","n","d"," ","T","o","b","a","g","o">>, iso3 |-> <<"T","T","O">>, region |-> RegionName.AMERICAS, subregion |-> SubRegionName.Caribbean],
    [name |-> <<"B","e","l","i","z","e">>, iso3 |-> <<"B","L","Z">>, region |-> RegionName.AMERICAS, subregion |-> SubRegionName.Central_America],
    [name |-> <<"C","o","s","t","a"," ","R","i","c","a">>, iso3 |-> <<"C","R","I">>, region |-> RegionName.AMERICAS, subregion |-> SubRegionName.Central_America],
    [name |-> <<"E","l"," ","S","a","l","v","a","d","o","r">>, iso3 |-> <<"S","L","V">>, region |-> RegionName.AMERICAS, subregion |-> SubRegionName.Central_America],
    [name |-> <<"G","u","a","t","e","m","a","l","a">>, iso3 |-> <<"G","T","M">>, region |-> RegionName.AMERICAS, subregion |-> SubRegionName.Central_America],
    [name |-> <<"H","o","n","d","u","r","a","s">>, iso3 |-> <<"H","N","D">>, region |-> RegionName.AMERICAS, subregion |-> SubRegionName.Central_America],
    [name |-> <<"M","e","x","i","c","o">>, iso3 |-> <<"M","E","X">>, region |-> RegionName.AMERICAS, subregion |-> SubRegionName.Central_America],
    [name |-> <<"N","i","c","a","r","a","g","u","a">>, iso3 |-> <<"N","I","C">>, region |-> RegionName.AMERICAS, subregion |-> SubRegionName.Central_America],
    [name |-> <<"P","a","n","a","m","a">>, iso3 |-> <<"P","A","N">>, region |-> RegionName.AMERICAS, subregion |-> SubRegionName.Central_America],
    [name |-> <<"C","a","n","a","d","a">>, iso3 |-> <<"C","A","N">>, region |-> RegionName.AMERICAS, subregion |-> SubRegionName.Northern_America],
    [name |-> <<"U","n","i","t","e","d"," ","S","t","a","t","e","s">>, iso3 |-> <<"U","S","A">>, region |-> RegionName.AMERICAS, subregion |-> SubRegionName.Northern_America],
    [name |-> <<"A","r","g","e","n","t","i","n","a">>, iso3 |-> <<"A","R","G">>, region |-> RegionName.AMERICAS, subregion |-> SubRegionName.South_America],
    [name |-> <<"B","o","l","i","v","i","a">>, iso3 |-> <<"B","O","L">>, region |-> RegionName.AMERICAS, subregion |-> SubRegionName.South_America],
    [name |-> <<"B","r","a","z","i","l">>, iso3 |-> <<"B","R","A">>, region |-> RegionName.AMERICAS, subregion |-> SubRegionName.South_America],
    [name |-> <<"C","h","i","l","e">>, iso3 |-> <<"C","H","L">>, region |-> RegionName.AMERICAS, subregion |-> SubRegionName.South_America],
    [name |-> <<"C","o","l","o","m","b","i","a">>, iso3 |-> <<"C","O","L">>, region |-> RegionName.AMERICAS, subregion |-> SubRegionName.South_America],
    [name |-> <<"E","c","u","a","d","o","r">>, iso3 |-> <<"E","C","U">>, region |-> RegionName.AMERICAS, subregion |-> SubRegionName.South_America],
    [name |-> <<"F","r","e","n","c","h"," ","G","u","i","a","n","a">>, iso3 |-> <<"G","U","F">>, region |-> RegionName.AMERICAS, subregion |-> SubRegionName.South_America],
    [name |-> <<"G","u","y","a","n","a">>, iso3 |-> <<"G","U","Y">>, region |-> RegionName.AMERICAS, subregion |-> SubRegionName.South_America],
    [name |-> <<"P","a","r","a","g","u","a","y">>, iso3 |-> <<"P","R","Y">>, region |-> RegionName.AMERICAS, subregion |-> SubRegionName.South_America],
    [name |-> <<"P","e","r","u">>, iso3 |-> <<"P","E","R">>, region |-> RegionName.AMERICAS, subregion |-> SubRegionName.South_America],
    [name |-> <<"S","u","r","i","n","a","m","e">>, iso3 |-> <<"S","U","R">>, region |-> RegionName.AMERICAS, subregion |-> SubRegionName.South_America],
    [name |-> <<"U","r","u","g","u","a","y">>, iso3 |-> <<"U","R","Y">>, region |-> RegionName.AMERICAS, subregion |-> SubRegionName.South_America],
    [name |-> <<"V","e","n","e","z","u","e","l","a">>, iso3 |-> <<"V","E","N">>, region |-> RegionName.AMERICAS, subregion |-> SubRegionName.South_America],
    [name |-> <<"C","h","i","n","a">>, iso3 |-> <<"C","H","N">>, region |-> RegionName.ASIA, subregion |-> SubRegionName.Eastern_Asia],
    [name |-> <<"H","o","n","g"," ","K","o","n","g">>, iso3 |-> <<"H","K","G">>, region |-> RegionName.ASIA, subregion |-> SubRegionName.Eastern_Asia],
    [name |-> <<"J","a","p","a","n">>, iso3 |-> <<"J","P","N">>, region |-> RegionName.ASIA, subregion |-> SubRegionName.Eastern_Asia],
    [name |-> <<"M","o","n","g","o","l","i","a">>, iso3 |-> <<"M","N","G">>, region |-> RegionName.ASIA, subregion |-> SubRegionName.Eastern_Asia],
    [name |-> <<"N","o","r","t","h"," ","K","o","r","e","a">>, iso3 |-> <<"P","R","K">>, region |-> RegionName.ASIA, subregion |-> SubRegionName.Eastern_Asia],
    [name |-> <<"S","o","u","t","h"," ","K","o","r","e","a">>, iso3 |-> <<"K","O","R">>, region |-> RegionName.ASIA, subregion |-> SubRegionName.Eastern_Asia],
    [name |-> <<"T","a","i","w","a","n">>, iso3 |-> <<"T","W","N">>, region |-> RegionName.ASIA, subregion |-> SubRegionName.Eastern_Asia],
    [name |-> <<"A","f","g","h","a","n","i","s","t","a","n">>, iso3 |-> <<"A","F","G">>, region |-> RegionName.ASIA, subregion |-> SubRegionName.Southern_Asia],
    [name |-> <<"B","a","n","g","l","a","d","e","s","h">>, iso3 |-> <<"B","G","D">>, region |-> RegionName.ASIA, subregion |-> SubRegionName.Southern_Asia],
    [name |-> <<"B","h","u","t","a","n">>, iso3 |-> <<"B","T","N">>, region |-> RegionName.ASIA, subregion |-> SubRegionName.Southern_Asia],
    [name |-> <<"I","n","d","i","a">>, iso3 |-> <<"I","N","D">>, region |-> RegionName.ASIA, subregion |-> SubRegionName.Southern_Asia],
    [name |-> <<"M","a","l","d","i","v","e","s">>, iso3 |-> <<"M","D","V">>, region |-> RegionName.ASIA, subregion |-> SubRegionName.Southern_Asia],
    [name |-> <<"N","e","p","a","l">>, iso3 |-> <<"N","P","L">>, region |-> RegionName.ASIA, subregion |-> SubRegionName.Southern_Asia],
    [name |-> <<"P","a","k","i","s","t","a","n">>, iso3 |-> <<"P","A","K">>, region |-> RegionName.ASIA, subregion |-> SubRegionName.Southern_Asia],
    [name |-> <<"S","r","i"," ","L","a","n","k","a">>, iso3 |-> <<"L","K","A">>, region |-> RegionName.ASIA, subregion |-> SubRegionName.Southern_Asia],
    [name |-> <<"B","r","u","n","e","i">>, iso3 |-> <<"B","R","N">>, region |-> RegionName.ASIA, subregion |-> SubRegionName.South_Eastern_Asia],
    [name |-> <<"C","a","m","b","o","d","i","a">>, iso3 |-> <<"K","H","M">>, region |-> RegionName.ASIA, subregion |-> SubRegionName.South_Eastern_Asia],
    [name |-> <<"I","n","d","o","n","e","s","i","a">>, iso3 |-> <<"I","D","N">>, region |-> RegionName.ASIA, subregion |-> SubRegionName.South_Eastern_Asia],
    [name |-> <<"L","a","o","s">>, iso3 |-> <<"L","A","O">>, region |-> RegionName.ASIA, subregion |-> SubRegionName.South_Eastern_Asia],
    [name |-> <<"M","a","l","a","y","s","i","a">>, iso3 |-> <<"M","Y","S">>, region |-> RegionName.ASIA, subregion |-> SubRegionName.South_Eastern_Asia],
    [name |-> <<"M","y","a","n","m","a","r">>, iso3 |-> <<"M","M","R">>, region |-> RegionName.ASIA, subregion |-> SubRegionName.South_Eastern_Asia],
    [name |-> <<"P","h","i","l","i","p","p","i","n","e","s">>, iso3 |-> <<"P","H","L">>, region |-> RegionName.ASIA, subregion |-> SubRegionName.South_Eastern_Asia],
    [name |-> <<"S","i","n","g","a","p","o","r","e">>, iso3 |-> <<"S","G","P">>, region |-> RegionName.ASIA, subregion |-> SubRegionName.South_Eastern_Asia],
    [name |-> <<"T","h","a","i","l","a","n","d">>, iso3 |-> <<"T","H","A">>, region |-> RegionName.ASIA, subregion |-> SubRegionName.South_Eastern_Asia],
    [name |-> <<"T","i","m","o","r","-","L","e","s","t","e">>, iso3 |-> <<"T","L","S">>, region |-> RegionName.ASIA, subregion |-> SubRegionName.South_Eastern_Asia],
    [name |-> <<"V","i","e","t","n","a","m">>, iso3 |-> <<"V","N","M">>, region |-> RegionName.ASIA, subregion |-> SubRegionName.South_Eastern_Asia],
    [name |-> <<"A","u","s","t","r","a","l","i","a">>, iso3 |-> <<"A","U","S">>, region |-> RegionName.ASIA, subregion |-> SubRegionName.Oceania],
    [name |-> <<"N","e","w"," ","Z","e","a","l","a","n","d">>, iso3 |-> <<"N","Z","L">>, region |-> RegionName.ASIA, subregion |-> SubRegionName.Oceania],
    [name |-> <<"F","i","j","i">>, iso3 |-> <<"F","J","I">>, region |-> RegionName.ASIA, subregion |-> SubRegionName.Oceania],
    [name |-> <<"P","a","p","u","a"," ","N","e","w"," ","G","u","i","n","e","a">>, iso3 |-> <<"P","N","G">>, region |-> RegionName.ASIA, subregion |-> SubRegionName.Oceania],
    [name |-> <<"S","o","l","o","m","o","n"," ","I","s","l","a","n","d","s">>, iso3 |-> <<"S","L","B">>, region |-> RegionName.ASIA, subregion |-> SubRegionName.Oceania],
    [name |-> <<"V","a","n","u","a","t","u">>, iso3 |-> <<"V","U","T">>, region |-> RegionName.ASIA, subregion |-> SubRegionName.Oceania],
    [name |-> <<"K","i","r","i","b","a","t","i">>, iso3 |-> <<"K","I","R">>, region |-> RegionName.ASIA, subregion |-> SubRegionName.Oceania],
    [name |-> <<"M","a","r","s","h","a","l","l"," ","I","s","l","a","n","d","s">>, iso3 |-> <<"M","H","L">>, region |-> RegionName.ASIA, subregion |-> SubRegionName.Oceania],
    [name |-> <<"M","i","c","r","o","n","e","s","i","a">>, iso3 |-> <<"F","S","M">>, region |-> RegionName.ASIA, subregion |-> SubRegionName.Oceania],
    [name |-> <<"N","a","u","r","u">>, iso3 |-> <<"N","R","U">>, region |-> RegionName.ASIA, subregion |-> SubRegionName.Oceania],
    [name |-> <<"P","a","l","a","u">>, iso3 |-> <<"P","L","W">>, region |-> RegionName.ASIA, subregion |-> SubRegionName.Oceania],
    [name |-> <<"S","a","m","o","a">>, iso3 |-> <<"W","S","M">>, region |-> RegionName.ASIA, subregion |-> SubRegionName.Oceania],
    [name |-> <<"T","o","n","g","a">>, iso3 |-> <<"T","O","N">>, region |-> RegionName.ASIA, subregion |-> SubRegionName.Oceania],
    [name |-> <<"T","u","v","a","l","u">>, iso3 |-> <<"T","U","V">>, region |-> RegionName.ASIA, subregion |-> SubRegionName.Oceania],
    [name |-> <<"T","u","r","k","e","y">>, iso3 |-> <<"T","U","R">>, region |-> RegionName.MIDDLE_EAST, subregion |-> SubRegionName.Near_East],
    [name |-> <<"I","r","a","q">>, iso3 |-> <<"I","R","Q">>, region |-> RegionName.MIDDLE_EAST, subregion |-> SubRegionName.Near_East],
    [name |-> <<"I","s","r","a","e","l">>, iso3 |-> <<"I","S","R">>, region |-> RegionName.MIDDLE_EAST, subregion |-> SubRegionName.Near_East],
    [name |-> <<"J","o","r","d","a","n">>, iso3 |-> <<"J","O","R">>, region |-> RegionName.MIDDLE_EAST, subregion |-> SubRegionName.Near_East],
    [name |-> <<"K","u","w","a","i","t">>, iso3 |-> <<"K","W","T">>, region |-> RegionName.MIDDLE_EAST, subregion |-> SubRegionName.Near_East],
    [name |-> <<"L","e","b","a","n","o","n">>, iso3 |-> <<"L","B","N">>, region |-> RegionName.MIDDLE_EAST, subregion |-> SubRegionName.Near_East],
    [name |-> <<"P","a","l","e","s","t","i","n","e">>, iso3 |-> <<"P","S","E">>, region |-> RegionName.MIDDLE_EAST, subregion |-> SubRegionName.Near_East],
    [name |-> <<"S","y","r","i","a">>, iso3 |-> <<"S","Y","R">>, region |-> RegionName.MIDDLE_EAST, subregion |-> SubRegionName.Near_East],
    [name |-> <<"C","y","p","r","u","s">>, iso3 |-> <<"C","Y","P">>, region |-> RegionName.MIDDLE_EAST, subregion |-> SubRegionName.Near_East],
    [name |-> <<"A","r","m","e","n","i","a">>, iso3 |-> <<"A","R","M">>, region |-> RegionName.MIDDLE_EAST, subregion |-> SubRegionName.Far_East],
    [name |-> <<"A","z","e","r","b","a","i","j","a","n">>, iso3 |-> <<"A","Z","E">>, region |-> RegionName.MIDDLE_EAST, subregion |-> SubRegionName.Far_East],
    [name |-> <<"B","a","h","r","a","i","n">>, iso3 |-> <<"B","H","R">>, region |-> RegionName.MIDDLE_EAST, subregion |-> SubRegionName.Far_East],
    [name |-> <<"G","e","o","r","g","i","a">>, iso3 |-> <<"G","E","O">>, region |-> RegionName.MIDDLE_EAST, subregion |-> SubRegionName.Far_East],
    [name |-> <<"I","r","a","n">>, iso3 |-> <<"I","R","N">>, region |-> RegionName.MIDDLE_EAST, subregion |-> SubRegionName.Far_East],
    [name |-> <<"O","m","a","n">>, iso3 |-> <<"O","M","N">>, region |-> RegionName.MIDDLE_EAST, subregion |-> SubRegionName.Far_East],
    [name |-> <<"Q","a","t","a","r">>, iso3 |-> <<"Q","A","T">>, region |-> RegionName.MIDDLE_EAST, subregion |-> SubRegionName.Far_East],
    [name |-> <<"S","a","u","d","i"," ","A","r","a","b","i","a">>, iso3 |-> <<"S","A","U">>, region |-> RegionName.MIDDLE_EAST, subregion |-> SubRegionName.Far_East],
    [name |-> <<"U","n","i","t","e","d"," ","A","r","a","b"," ","E","m","i","r","a","t","e","s">>, iso3 |-> <<"A","R","E">>, region |-> RegionName.MIDDLE_EAST, subregion |-> SubRegionName.Far_East],
    [name |-> <<"Y","e","m","e","n">>, iso3 |-> <<"Y","E","M">>, region |-> RegionName.MIDDLE_EAST, subregion |-> SubRegionName.Far_East],
    [name |-> <<"K","a","z","a","k","h","s","t","a","n">>, iso3 |-> <<"K","A","Z">>, region |-> RegionName.MIDDLE_EAST, subregion |-> SubRegionName.Far_East],
    [name |-> <<"K","y","r","g","y","z","s","t","a","n">>, iso3 |-> <<"K","G","Z">>, region |-> RegionName.MIDDLE_EAST, subregion |-> SubRegionName.Far_East],
    [name |-> <<"T","a","j","i","k","i","s","t","a","n">>, iso3 |-> <<"T","J","K">>, region |-> RegionName.MIDDLE_EAST, subregion |-> SubRegionName.Far_East],
    [name |-> <<"T","u","r","k","m","e","n","i","s","t","a","n">>, iso3 |-> <<"T","K","M">>, region |-> RegionName.MIDDLE_EAST, subregion |-> SubRegionName.Far_East],
    [name |-> <<"U","z","b","e","k","i","s","t","a","n">>, iso3 |-> <<"U","Z","B">>, region |-> RegionName.MIDDLE_EAST, subregion |-> SubRegionName.Far_East],
    [name |-> <<"B","e","l","a","r","u","s">>, iso3 |-> <<"B","L","R">>, region |-> RegionName.EUROPE, subregion |-> SubRegionName.Eastern_Europe],
    [name |-> <<"B","u","l","g","a","r","i","a">>, iso3 |-> <<"B","G","R">>, region |-> RegionName.EUROPE, subregion |-> SubRegionName.Eastern_Europe],
    [name |-> <<"C","z","e","c","h"," ","R","e","p","u","b","l","i","c">>, iso3 |-> <<"C","Z","E">>, region |-> RegionName.EUROPE, subregion |-> SubRegionName.Eastern_Europe],
    [name |-> <<"H","u","n","g","a","r","y">>, iso3 |-> <<"H","U","N">>, region |-> RegionName.EUROPE, subregion |-> SubRegionName.Eastern_Europe],
    [name |-> <<"P","o","l","a","n","d">>, iso3 |-> <<"P","O","L">>, region |-> RegionName.EUROPE, subregion |-> SubRegionName.Eastern_Europe],
    [name |-> <<"M","o","l","d","o","v","a">>, iso3 |-> <<"M","D","A">>, region |-> RegionName.EUROPE, subregion |-> SubRegionName.Eastern_Europe],
    [name |-> <<"R","o","m","a","n","i","a">>, iso3 |-> <<"R","O","U">>, region |-> RegionName.EUROPE, subregion |-> SubRegionName.Eastern_Europe],
    [name |-> <<"R","u","s","s","i","a">>, iso3 |-> <<"R","U","S">>, region |-> RegionName.EUROPE, subregion |-> SubRegionName.Eastern_Europe],
    [name |-> <<"S","l","o","v","a","k","i","a">>, iso3 |-> <<"S","V","K">>, region |-> RegionName.EUROPE, subregion |-> SubRegionName.Eastern_Europe],
    [name |-> <<"U","k","r","a","i","n","e">>, iso3 |-> <<"U","K","R">>, region |-> RegionName.EUROPE, subregion |-> SubRegionName.Eastern_Europe],
    [name |-> <<"D","e","n","m","a","r","k">>, iso3 |-> <<"D","N","K">>, region |-> RegionName.EUROPE, subregion |-> SubRegionName.Northern_Europe],
    [name |-> <<"E","s","t","o","n","i","a">>, iso3 |-> <<"E","S","T">>, region |-> RegionName.EUROPE, subregion |-> SubRegionName.Northern_Europe],
    [name |-> <<"F","i","n","l","a","n","d">>, iso3 |-> <<"F","I","N">>, region |-> RegionName.EUROPE, subregion |-> SubRegionName.Northern_Europe],
    [name |-> <<"I","c","e","l","a","n","d">>, iso3 |-> <<"I","S","L">>, region |-> RegionName.EUROPE, subregion |-> SubRegionName.Northern_Europe],
    [name |-> <<"I","r","e","l","a","n","d">>, iso3 |-> <<"I","R","L">>, region |-> RegionName.EUROPE, subregion |-> SubRegionName.Northern_Europe],
    [name |-> <<"L","a","t","v","i","a">>, iso3 |-> <<"L","V","A">>, region |-> RegionName.EUROPE, subregion |-> SubRegionName.Northern_Europe],
    [name |-> <<"L","i","t","h","u","a","n","i","a">>, iso3 |-> <<"L","T","U">>, region |-> RegionName.EUROPE, subregion |-> SubRegionName.Northern_Europe],
    [name |-> <<"N","o","r","w","a","y">>, iso3 |-> <<"N","O","R">>, region |-> RegionName.EUROPE, subregion |-> SubRegionName.Northern_Europe],
    [name |-> <<"S","w","e","d","e","n">>, iso3 |-> <<"S","W","E">>, region |-> RegionName.EUROPE, subregion |-> SubRegionName.Northern_Europe],
    [name |-> <<"U","n","i","t","e","d"," ","K","i","n","g","d","o","m">>, iso3 |-> <<"G","B","R">>, region |-> RegionName.EUROPE, subregion |-> SubRegionName.Northern_Europe],
    [name |-> <<"A","l","b","a","n","i","a">>, iso3 |-> <<"A","L","B">>, region |-> RegionName.EUROPE, subregion |-> SubRegionName.Southern_Europe],
    [name |-> <<"A","n","d","o","r","r","a">>, iso3 |-> <<"A","N","D">>, region |-> RegionName.EUROPE, subregion |-> SubRegionName.Southern_Europe],
    [name |-> <<"B","o","s","n","i","a"," ","a","n","d"," ","H","e","r","z","e","g","o","v","i","n","a">>, iso3 |-> <<"B","I","H">>, region |-> RegionName.EUROPE, subregion |-> SubRegionName.Southern_Europe],
    [name |-> <<"C","r","o","a","t","i","a">>, iso3 |-> <<"H","R","V">>, region |-> RegionName.EUROPE, subregion |-> SubRegionName.Southern_Europe],
    [name |-> <<"G","r","e","e","c","e">>, iso3 |-> <<"G","R","C">>, region |-> RegionName.EUROPE, subregion |-> SubRegionName.Southern_Europe],
    [name |-> <<"I","t","a","l","y">>, iso3 |-> <<"I","T","A">>, region |-> RegionName.EUROPE, subregion |-> SubRegionName.Southern_Europe],
    [name |-> <<"M","a","l","t","a">>, iso3 |-> <<"M","L","T">>, region |-> RegionName.EUROPE, subregion |-> SubRegionName.Southern_Europe],
    [name |-> <<"M","o","n","t","e","n","e","g","r","o">>, iso3 |-> <<"M","N","E">>, region |-> RegionName.EUROPE, subregion |-> SubRegionName.Southern_Europe],
    [name |-> <<"N","o","r","t","h"," ","M","a","c","e","d","o","n","i","a">>, iso3 |-> <<"M","K","D">>, region |-> RegionName.EUROPE, subregion |-> SubRegionName.Southern_Europe],
    [name |-> <<"P","o","r","t","u","g","a","l">>, iso3 |-> <<"P","R","T">>, region |-> RegionName.EUROPE, subregion |-> SubRegionName.Southern_Europe],
    [name |-> <<"S","a","n"," ","M","a","r","i","n","o">>, iso3 |-> <<"S","M","R">>, region |-> RegionName.EUROPE, subregion |-> SubRegionName.Southern_Europe],
    [name |-> <<"S","e","r","b","i","a">>, iso3 |-> <<"S","R","B">>, region |-> RegionName.EUROPE, subregion |-> SubRegionName.Southern_Europe],
    [name |-> <<"S","l","o","v","e","n","i","a">>, iso3 |-> <<"S","V","N">>, region |-> RegionName.EUROPE, subregion |-> SubRegionName.Southern_Europe],
    [name |-> <<"S","p","a","i","n">>, iso3 |-> <<"E","S","P">>, region |-> RegionName.EUROPE, subregion |-> SubRegionName.Southern_Europe],
    [name |-> <<"V","a","t","i","c","a","n"," ","C","i","t","y">>, iso3 |-> <<"V","A","T">>, region |-> RegionName.EUROPE, subregion |-> SubRegionName.Southern_Europe],
    [name |-> <<"A","u","s","t","r","i","a">>, iso3 |-> <<"A","U","T">>, region |-> RegionName.EUROPE, subregion |-> SubRegionName.Western_Europe],
    [name |-> <<"B","e","l","g","i","u","m">>, iso3 |-> <<"B","E","L">>, region |-> RegionName.EUROPE, subregion |-> SubRegionName.Western_Europe],
    [name |-> <<"F","r","a","n","c","e">>, iso3 |-> <<"F","R","A">>, region |-> RegionName.EUROPE, subregion |-> SubRegionName.Western_Europe],
    [name |-> <<"G","e","r","m","a","n","y">>, iso3 |-> <<"D","E","U">>, region |-> RegionName.EUROPE, subregion |-> SubRegionName.Western_Europe],
    [name |-> <<"L","i","e","c","h","t","e","n","s","t","e","i","n">>, iso3 |-> <<"L","I","E">>, region |-> RegionName.EUROPE, subregion |-> SubRegionName.Western_Europe],
    [name |-> <<"L","u","x","e","m","b","o","u","r","g">>, iso3 |-> <<"L","U","X">>, region |-> RegionName.EUROPE, subregion |-> SubRegionName.Western_Europe],
    [name |-> <<"M","o","n","a","c","o">>, iso3 |-> <<"M","C","O">>, region |-> RegionName.EUROPE, subregion |-> SubRegionName.Western_Europe],
    [name |-> <<"N","e","t","h","e","r","l","a","n","d","s">>, iso3 |-> <<"N","L","D">>, region |-> RegionName.EUROPE, subregion |-> SubRegionName.Western_Europe],
    [name |-> <<"S","w","i","t","z","e","r","l","a","n","d">>, iso3 |-> <<"C","H","E">>, region |-> RegionName.EUROPE, subregion |-> SubRegionName.Western_Europe]
  >>

\* GEOGRAPHIC_REGIONS of the dashboard's copy of the module
\* (global-sam-dashboard/global_sam_utils.py), flattened in the same way.
DASHBOARD_GEOGRAPHIC_REGIONS ==
  <<
    [name |-> <<"A","l","g","e","r","i","a">>, iso3 |-> <<"D","Z","A">>, region |-> RegionName.AFRICA, subregion |-> SubRegionName.Northern_Africa],
    [name |-> <<"E","g","y","p","t">>, iso3 |-> <<"E","G","Y">>, region |-> RegionName.AFRICA, subregion |-> SubRegionName.Northern_Africa],
    [name |-> <<"L","i","b","y","a">>, iso3 |-> <<"L","B","Y">>, region |-> RegionName.AFRICA, subregion |-> SubRegionName.Northern_Africa],
    [name |-> <<"M","a","u","r","i","t","a","n","i","a">>, iso3 |-> <<"M","R","T">>, region |-> RegionName.AFRICA, subregion |-> SubRegionName.Northern_Africa],
    [name |-> <<"M","o","r","o","c","c","o">>, iso3 |-> <<"M","A","R">>, region |-> RegionName.AFRICA, subregion |-> SubRegionName.Northern_Africa],
    [name |-> <<"S","u","d","a","n">>, iso3 |-> <<"S","D","N">>, region |-> RegionName.AFRICA, subregion |-> SubRegionName.Northern_Africa],
    [name |-> <<"T","u","n","i","s","i","a">>, iso3 |-> <<"T","U","N">>, region |-> RegionName.AFRICA, subregion |-> SubRegionName.Northern_Africa],
    [name |-> <<"W","e","s","t","e","r","n"," ","S","a","h","a","r","a">>, iso3 |-> <<"E","S","H">>, region |-> RegionName.AFRICA, subregion |-> SubRegionName.Northern_Africa],
    [name |-> <<"B","u","r","u","n","d","i">>, iso3 |-> <<"B","D","I">>, region |-> RegionName.AFRICA, subregion |-> SubRegionName.Eastern_Africa],
    [name |-> <<"C","o","m","o","r","o","s">>, iso3 |-> <<"C","O","M">>, region |-> RegionName.AFRICA, subregion |-> SubRegionName.Eastern_Africa],
    [name |-> <<"D","j","i","b","o","u","t","i">>, iso3 |-> <<"D","J","I">>, region |-> RegionName.AFRICA, subregion |-> SubRegionName.Eastern_Africa],
    [name |-> <<"E","r","i","t","r","e","a">>, iso3 |-> <<"E","R","I">>, region |-> RegionName.AFRICA, subregion |-> SubRegionName.Eastern_Africa],
    [name |-> <<"E","t","h","i","o","p","i","a">>, iso3 |-> <<"E","T","H">>, region |-> RegionName.AFRICA, subregion |-> SubRegionName.Eastern_Africa],
    [name |-> <<"K","e","n","y","a">>, iso3 |-> <<"K","E","N">>, region |-> RegionName.AFRICA, subregion |-> SubRegionName.Eastern_Africa],
    [name |-> <<"M","a","d","a","g","a","s","c","a","r">>, iso3 |-> <<"M","D","G">>, region |-> RegionName.AFRICA, subregion |-> SubRegionName.Eastern_Africa],
    [name |-> <<"M","a","l","a","w","i">>, iso3 |-> <<"M","W","I">>, region |-> RegionName.AFRICA, subregion |-> SubRegionName.Eastern_Africa],
    [name |-> <<"M","a","u","r","i","t","i","u","s">>, iso3 |-> <<"M","U","S">>, region |-> RegionName.AFRICA, subregion |-> SubRegionName.Eastern_Africa],
    [name |-> <<"M","a","y","o","t","t","e">>, iso3 |-> <<"M","Y","T">>, region |-> RegionName.AFRICA, subregion |-> SubRegionName.Eastern_Africa],
    [name |-> <<"M","o","z","a","m","b","i","q","u","e">>, iso3 |-> <<"M","O","Z">>, region |-> RegionName.AFRICA, subregion |-> SubRegionName.Eastern_Africa],
    [name |-> <<"R","e_acute","u","n","i","o","n">>, iso3 |-> <<"R","E","U">>, region |-> RegionName.AFRICA, subregion |-> SubRegionName.Eastern_Africa],
    [name |-> <<"R","w","a","n","d","a">>, iso3 |-> <<"R","W","A">>, region |-> RegionName.AFRICA, subregion |-> SubRegionName.Eastern_Africa],
    [name |-> <<"S","e","y","c","h","e","l","l","e","s">>, iso3 |-> <<"S","Y","C">>, region |-> RegionName.AFRICA, subregion |-> SubRegionName.Eastern_Africa],
    [name |-> <<"S","o","m","a","l","i","a">>, iso3 |-> <<"S","O","M">>, region |-> RegionName.AFRICA, subregion |-> SubRegionName.Eastern_Africa],
    [name |-> <<"S","o","u","t","h"," ","S","u","d","a","n">>, iso3 |-> <<"S","S","D">>, region |-> RegionName.AFRICA, subregion |-> SubRegionName.Eastern_Africa],
    [name |-> <<"T","a","n","z","a","n","i","a">>, iso3 |-> <<"T","Z","A">>, region |-> RegionName.AFRICA, subregion |-> SubRegionName.Eastern_Africa],
    [name |-> <<"U","g","a","n","d","a">>, iso3 |-> <<"U","G","A">>, region |-> RegionName.AFRICA, subregion |-> SubRegionName.Eastern_Africa],
    [name |-> <<"Z","a","m","b","i","a">>, iso3 |-> <<"Z","M","B">>, region |-> RegionName.AFRICA, subregion |-> SubRegionName.Eastern_Africa],
    [name |-> <<"Z","i","m","b","a","b","w","e">>, iso3 |-> <<"Z","W","E">>, region |-> RegionName.AFRICA, subregion |-> SubRegionName.Eastern_Africa],
    [name |-> <<"B","r","i","t","i","s","h"," ","I","n","d","i","a","n"," ","O","c","e","a","n"," ","T","e","r","r","i","t","o","r","y">>, iso3 |-> <<"I","O","T">>, region |-> RegionName.AFRICA, subregion |-> SubRegionName.Eastern_Africa],
    [name |-> <<"A","n","g","o","l","a">>, iso3 |-> <<"A","G","O">>, region |-> RegionName.AFRICA, subregion |-> SubRegionName.Middle_Africa],
    [name |-> <<"C","a","m","e","r","o","o","n">>, iso3 |-> <<"C","M","R">>, region |-> RegionName.AFRICA, subregion |-> SubRegionName.Middle_Africa],
    [name |-> <<"C","e","n","t","r","a","l"," ","A","f","r","i","c","a","n"," ","R","e","p","u","b","l","i","c">>, iso3 |-> <<"C","A","F">>, region |-> RegionName.AFRICA, subregion |-> SubRegionName.Middle_Africa],
    [name |-> <<"C","h","a","d">>, iso3 |-> <<"T","C","D">>, region |-> RegionName.AFRICA, subregion |-> SubRegionName.Middle_Africa],
    [name |-> <<"C","o","n","g","o">>, iso3 |-> <<"C","O","G">>, region |-> RegionName.AFRICA, subregion |-> SubRegionName.Middle_Africa],
    [name |-> <<"D","e","m","o","c","r","a","t","i","c"," ","R","e","p","u","b","l","i","c"," ","o","f"," ","t","h","e"," ","C","o","n","g","o">>, iso3 |-> <<"C","O","D">>, region |-> RegionName.AFRICA, subregion |-> SubRegionName.Middle_Africa],
    [name |-> <<"E","q","u","a","t","o","r","i","a","l"," ","G","u","i","n","e","a">>, iso3 |-> <<"G","N","Q">>, region |-> RegionName.AFRICA, subregion |-> SubRegionName.Middle_Africa],
    [name |-> <<"G","a","b","o","n">>, iso3 |-> <<"G","A","B">>, region |-> RegionName.AFRICA, subregion |-> SubRegionName.Middle_Africa],
    [name |-> <<"S","a_tilde","o"," ","T","o","m","e_acute"," ","a","n","d"," ","P","r","i_acute","n","c","i","p","e">>, iso3 |-> <<"S","T","P">>, region |-> RegionName.AFRICA, subregion |-> SubRegionName.Middle_Africa],
    [name |-> <<"B","o","t","s","w","a","n","a">>, iso3 |-> <<"B","W","A">>, region |-> RegionName.AFRICA, subregion |-> SubRegionName.Southern_Africa],
    [name |-> <<"E","s","w","a","t","i","n","i">>, iso3 |-> <<"S","W","Z">>, region |-> RegionName.AFRICA, subregion |-> SubRegionName.Southern_Africa],
    [name |-> <<"L","e","s","o","t","h","o">>, iso3 |-> <<"L","S","O">>, region |-> RegionName.AFRICA, subregion |-> SubRegionName.Southern_Africa],
    [name |-> <<"N","a","m","i","b","i","a">>, iso3 |-> <<"N","A","M">>, region |-> RegionName.AFRICA, subregion |-> SubRegionName.Southern_Africa],
    [name |-> <<"S","o","u","t","h"," ","A","f","r","i","c","a">>, iso3 |-> <<"Z","A","F">>, region |-> RegionName.AFRICA, subregion |-> SubRegionName.Southern_Africa],
    [name |-> <<"B","e","n","i","n">>, iso3 |-> <<"B","E","N">>, region |-> RegionName.AFRICA, subregion |-> SubRegionName.Western_Africa],
    [name |-> <<"B","u","r","k","i","n","a"," ","F","a","s","o">>, iso3 |-> <<"B","F","A">>, region |-> RegionName.AFRICA, subregion |-> SubRegionName.Western_Africa],
    [name |-> <<"C","a","b","o"," ","V","e","r","d","e">>, iso3 |-> <<"C","P","V">>, region |-> RegionName.AFRICA, subregion |-> SubRegionName.Western_Africa],
    [name |-> <<"C","o_circ","t","e"," ","d","'","I","v","o","i","r","e">>, iso3 |-> <<"C","I","V">>, region |-> RegionName.AFRICA, subregion |-> SubRegionName.Western_Africa],
    [name |-> <<"G","a","m","b","i","a">>, iso3 |-> <<"G","M","B">>, region |-> RegionName.AFRICA, subregion |-> SubRegionName.Western_Africa],
    [name |-> <<"G","h","a","n","a">>, iso3 |-> <<"G","H","A">>, region |-> RegionName.AFRICA, subregion |-> SubRegionName.Western_Africa],
    [name |-> <<"G","u","i","n","e","a">>, iso3 |-> <<"G","I","N">>, region |-> RegionName.AFRICA, subregion |-> SubRegionName.Western_Africa],
    [name |-> <<"G","u","i","n","e","a","-","B","i","s","s","a","u">>, iso3 |-> <<"G","N","B">>, region |-> RegionName.AFRICA, subregion |-> SubRegionName.Western_Africa],
    [name |-> <<"L","i","b","e","r","i","a">>, iso3 |-> <<"L","B","R">>, region |-> RegionName.AFRICA, subregion |-> SubRegionName.Western_Africa],
    [name |-> <<"M","a","l","i">>, iso3 |-> <<"M","L","I">>, region |-> RegionName.AFRICA, subregion |-> SubRegionName.Western_Africa],
    [name |-> <<"N","i","g","e","r">>, iso3 |-> <<"N","E","R">>, region |-> RegionName.AFRICA, subregion |-> SubRegionName.Western_Africa],
    [name |-> <<"N","i","g","e","r","i","a">>, iso3 |-> <<"N","G","A">>, region |-> RegionName.AFRICA, subregion |-> SubRegionName.Western_Africa],
    [name |-> <<"S","e","n","e","g","a","l">>, iso3 |-> <<"S","E","N">>, region |-> RegionName.AFRICA, subregion |-> SubRegionName.Western_Africa],
    [name |-> <<"S","i","e","r","r","a"," ","L","e","o","n","e">>, iso3 |-> <<"S","L","E">>, region |-> RegionName.AFRICA, subregion |-> SubRegionName.Western_Africa],
    [name |-> <<"T","o","g","o">>, iso3 |-> <<"T","G","O">>, region |-> RegionName.AFRICA, subregion |-> SubRegionName.Western_Africa],
    [name |-> <<"S","a","i","n","t"," ","H","e","l","e","n","a">>, iso3 |-> <<"S","H","N">>, region |-> RegionName.AFRICA, subregion |-> SubRegionName.Western_Africa],
    [name |-> <<"A","s","c","e","n","s","i","o","n"," ","I","s","l","a","n","d">>, iso3 |-> <<"S","H","N">>, region |-> RegionName.AFRICA, subregion |-> SubRegionName.Western_Africa],
    [name |-> <<"T","r","i","s","t","a","n"," ","d","a"," ","C","u","n","h","a">>, iso3 |-> <<"S","H","N">>, region |-> RegionName.AFRICA, subregion |-> SubRegionName.Western_Africa],
    [name |-> <<"A","n","g","u","i","l","l","a">>, iso3 |-> <<"A","I","A">>, region |-> RegionName.AMERICAS, subregion |-> SubRegionName.Caribbean],
    [name |-> <<"A","n","t","i","g","u","a"," ","a","n","d"," ","B","a","r","b","u","d","a">>, iso3 |-> <<"A","T","G">>, region |-> RegionName.AMERICAS, subregion |-> SubRegionName.Caribbean],
    [name |-> <<"A","r","u","b","a">>, iso3 |-> <<"A","B","W">>, region |-> RegionName.AMERICAS, subregion |-> SubRegionName.Caribbean],
    [name |-> <<"B","a","h","a","m","a","s">>, iso3 |-> <<"B","H","S">>, region |-> RegionName.AMERICAS, subregion |-> SubRegionName.Caribbean],
    [name |-> <<"B","a","r","b","a","d","o","s">>, iso3 |-> <<"B","R","B">>, region |-> RegionName.AMERICAS, subregion |-> SubRegionName.Caribbean],
    [name |-> <<"B","o","n","a","i","r","e">>, iso3 |-> <<"B","E","S">>, region |-> RegionName.AMERICAS, subregion |-> SubRegionName.Caribbean],
    [name |-> <<"B","r","i","t","i","s","h"," ","V","i","r","g","i","n"," ","I","s","l","a","n","d","s">>, iso3 |-> <<"V","G","B">>, region |-> RegionName.AMERICAS, subregion |-> SubRegionName.Caribbean],
    [name |-> <<"C","a","y","m","a","n"," ","I","s","l","a","n","d","s">>, iso3 |-> <<"C","Y","M">>, region |-> RegionName.AMERICAS, subregion |-> SubRegionName.Caribbean],
    [name |-> <<"C","u","b","a">>, iso3 |-> <<"C","U","B">>, region |-> RegionName.AMERICAS, subregion |-> SubRegionName.Caribbean],
    [name |-> <<"C","u","r","a","c_cedil","a","o">>, iso3 |-> <<"C","U","W">>, region |-> RegionName.AMERICAS, subregion |-> SubRegionName.Caribbean],
    [name |-> <<"D","o","m","i","n","i","c","a">>, iso3 |-> <<"D","M","A">>, region |-> RegionName.AMERICAS, subregion |-> SubRegionName.Caribbean],
    [name |-> <<"D","o","m","i","n","i","c","a","n"," ","R","e","p","u","b","l","i","c">>, iso3 |-> <<"D","O","M">>, region |-> RegionName.AMERICAS, subregion |-> SubRegionName.Caribbean],
    [name |-> <<"G","r","e","n","a","d","a">>, iso3 |-> <<"G","R","D">>, region |-> RegionName.AMERICAS, subregion |-> SubRegionName.Caribbean],
    [name |-> <<"G","u","a","d","e","l","o","u","p","e">>, iso3 |-> <<"G","L","P">>, region |-> RegionName.AMERICAS, subregion |-> SubRegionName.Caribbean],
    [name |-> <<"H","a","i","t","i">>, iso3 |-> <<"H","T","I">>, region |-> RegionName.AMERICAS, subregion |-> SubRegionName.Caribbean],
    [name |-> <<"J","a","m","a","i","c","a">>, iso3 |-> <<"J","A","M">>, region |-> RegionName.AMERICAS, subregion |-> SubRegionName.Caribbean],
    [name |-> <<"M","a","r","t","i","n","i","q","u","e">>, iso3 |-> <<"M","T","Q">>, region |-> RegionName.AMERICAS, subregion |-> SubRegionName.Caribbean],
    [name |-> <<"M","o","n","t","s","e","r","r","a","t">>, iso3 |-> <<"M","S","R">>, region |-> RegionName.AMERICAS, subregion |-> SubRegionName.Caribbean],
    [name |-> <<"P","u","e","r","t","o"," ","R","i","c","o">>, iso3 |-> <<"P","R","I">>, region |-> RegionName.AMERICAS, subregion |-> SubRegionName.Caribbean],
    [name |-> <<"S","a","i","n","t"," ","B","a","r","t","h","e_acute","l","e","m","y">>, iso3 |-> <<"B","L","M">>, region |-> RegionName.AMERICAS, subregion |-> SubRegionName.Caribbean],
    [name |-> <<"S","a","i","n","t"," ","K","i","t","t","s"," ","a","n","d"," ","N","e","v","i","s">>, iso3 |-> <<"K","N","A">>, region |-> RegionName.AMERICAS, subregion |-> SubRegionName.Caribbean],
    [name |-> <<"S","a","i","n","t"," ","L","u","c","i","a">>, iso3 |-> <<"L","C","A">>, region |-> RegionName.AMERICAS, subregion |-> SubRegionName.Caribbean],
    [name |-> <<"S","a","i","n","t"," ","M","a","r","t","i","n">>, iso3 |-> <<"M","A","F">>, region |-> RegionName.AMERICAS, subregion |-> SubRegionName.Caribbean],
    [name |-> <<"S","a","i","n","t"," ","V","i","n","c","e","n","t"," ","a","n","d"," ","t","h","e"," ","G","r","e","n","a","d","i","n","e","s">>, iso3 |-> <<"V","C","T">>, region |-> RegionName.AMERICAS, subregion |-> SubRegionName.Caribbean],
    [name |-> <<"S","i","n","t"," ","M","a","a","r","t","e","n">>, iso3 |-> <<"S","X","M">>, region |-> RegionName.AMERICAS, subregion |-> SubRegionName.Caribbean],
    [name |-> <<"T","r","i","n","i","d","a","d"," ","a","n","d"," ","T","o","b","a","g","o">>, iso3 |-> <<"T","T","O">>, region |-> RegionName.AMERICAS, subregion |-> SubRegionName.Caribbean],
    [name |-> <<"T","u","r","k","s"," ","a","n","d"," ","C","a","i","c","o","s"," ","I","s","l","a","n","d","s">>, iso3 |-> <<"T","C","A">>, region |-> RegionName.AMERICAS, subregion |-> SubRegionName.Caribbean],
    [name |-> <<"U","n","i","t","e","d"," ","S","t","a","t","e","s"," ","V","i","r","g","i","n"," ","I","s","l","a","n","d","s">>, iso3 |-> <<"V","I","R">>, region |-> RegionName.AMERICAS, subregion |-> SubRegionName.Caribbean],
    [name |-> <<"B","e","l","i","z","e">>, iso3 |-> <<"B","L","Z">>, region |-> RegionName.AMERICAS, subregion |-> SubRegionName.Central_America],
    [name |-> <<"C","o","s","t","a"," ","R","i","c","a">>, iso3 |-> <<"C","R","I">>, region |-> RegionName.AMERICAS, subregion |-> SubRegionName.Central_America],
    [name |-> <<"E","l"," ","S","a","l","v","a","d","o","r">>, iso3 |-> <<"S","L","V">>, region |-> RegionName.AMERICAS, subregion |-> SubRegionName.Central_America],
    [name |-> <<"G","u","a","t","e","m","a","l","a">>, iso3 |-> <<"G","T","M">>, region |-> RegionName.AMERICAS, subregion |-> SubRegionName.Central_America],
    [name |-> <<"H","o","n","d","u","r","a","s">>, iso3 |-> <<"H","N","D">>, region |-> RegionName.AMERICAS, subregion |-> SubRegionName.Central_America],
    [name |-> <<"M","e","x","i","c","o">>, iso3 |-> <<"M","E","X">>, region |-> RegionName.AMERICAS, subregion |-> SubRegionName.Central_America],
    [name |-> <<"N","i","c","a","r","a","g","u","a">>, iso3 |-> <<"N","I","C">>, region |-> RegionName.AMERICAS, subregion |-> SubRegionName.Central_America],
    [name |-> <<"P","a","n","a","m","a">>, iso3 |-> <<"P","A","N">>, region |-> RegionName.AMERICAS, subregion |-> SubRegionName.Central_America],
    [name |-> <<"B","e","r","m","u","d","a">>, iso3 |-> <<"B","M","U">>, region |-> RegionName.AMERICAS, subregion |-> SubRegionName.Northern_America],
    [name |-> <<"C","a","n","a","d","a">>, iso3 |-> <<"C","A","N">>, region |-> RegionName.AMERICAS, subregion |-> SubRegionName.Northern_America],
    [name |-> <<"G","r","e","e","n","l","a","n","d">>, iso3 |-> <<"G","R","L">>, region |-> RegionName.AMERICAS, subregion |-> SubRegionName.Northern_America],
    [name |-> <<"S","a","i","n","t"," ","P","i","e","r","r","e"," ","a","n","d"," ","M","i","q","u","e","l","o","n">>, iso3 |-> <<"S","P","M">>, region |-> RegionName.AMERICAS, subregion |-> SubRegionName.Northern_America],
    [name |-> <<"U","n","i","t","e","d"," ","S","t","a","t","e","s">>, iso3 |-> <<"U","S","A">>, region |-> RegionName.AMERICAS, subregion |-> SubRegionName.Northern_America],
    [name |-> <<"A","r","g","e","n","t","i","n","a">>, iso3 |-> <<"A","R","G">>, region |-> RegionName.AMERICAS, subregion |-> SubRegionName.South_America],
    [name |-> <<"B","o","l","i","v","i","a">>, iso3 |-> <<"B","O","L">>, region |-> RegionName.AMERICAS, subregion |-> SubRegionName.South_America],
    [name |-> <<"B","r","a","z","i","l">>, iso3 |-> <<"B","R","A">>, region |-> RegionName.AMERICAS, subregion |-> SubRegionName.South_America],
    [name |-> <<"C","h","i","l","e">>, iso3 |-> <<"C","H","L">>, region |-> RegionName.AMERICAS, subregion |-> SubRegionName.South_America],
    [name |-> <<"C","o","l","o","m","b","i","a">>, iso3 |-> <<"C","O","L">>, region |-> RegionName.AMERICAS, subregion |-> SubRegionName.South_America],
    [name |-> <<"E","c","u","a","d","o","r">>, iso3 |-> <<"E","C","U">>, region |-> RegionName.AMERICAS, subregion |-> SubRegionName.South_America],
    [name |-> <<"F","a","l","k","l","a","n","d"," ","I","s","l","a","n","d","s">>, iso3 |-> <<"F","L","K">>, region |-> RegionName.AMERICAS, subregion |-> SubRegionName.South_America],
    [name |-> <<"F","r","e","n","c","h"," ","G","u","i","a","n","a">>, iso3 |-> <<"G","U","F">>, region |-> RegionName.AMERICAS, subregion |-> SubRegionName.South_America],
    [name |-> <<"G","u","y","a","n","a">>, iso3 |-> <<"G","U","Y">>, region |-> RegionName.AMERICAS, subregion |-> SubRegionName.South_America],
    [name |-> <<"P","a","r","a","g","u","a","y">>, iso3 |-> <<"P","R","Y">>, region |-> RegionName.AMERICAS, subregion |-> SubRegionName.South_America],
    [name |-> <<"P","e","r","u">>, iso3 |-> <<"P","E","R">>, region |-> RegionName.AMERICAS, subregion |-> SubRegionName.South_America],
    [name |-> <<"S","u","r","i","n","a","m","e">>, iso3 |-> <<"S","U","R">>, region |-> RegionName.AMERICAS, subregion |-> SubRegionName.South_America],
    [name |-> <<"U","r","u","g","u","a","y">>, iso3 |-> <<"U","R","Y">>, region |-> RegionName.AMERICAS, subregion |-> SubRegionName.South_America],
    [name |-> <<"V","e","n","e","z","u","e","l","a">>, iso3 |-> <<"V","E","N">>, region |-> RegionName.AMERICAS, subregion |-> SubRegionName.South_America],
    [name |-> <<"C","h","i","n","a">>, iso3 |-> <<"C","H","N">>, region |-> RegionName.ASIA, subregion |-> SubRegionName.Eastern_Asia],
    [name |-> <<"H","o","n","g"," ","K","o","n","g">>, iso3 |-> <<"H","K","G">>, region |-> RegionName.ASIA, subregion |-> SubRegionName.Eastern_Asia],
    [name |-> <<"M","a","c","a","o">>, iso3 |-> <<"M","A","C">>, region |-> RegionName.ASIA, subregion |-> SubRegionName.Eastern_Asia],
    [name |-> <<"J","a","p","a","n">>, iso3 |-> <<"J","P","N">>, region |-> RegionName.ASIA, subregion |-> SubRegionName.Eastern_Asia],
    [name |-> <<"M","o","n","g","o","l","i","a">>, iso3 |-> <<"M","N","G">>, region |-> RegionName.ASIA, subregion |-> SubRegionName.Eastern_Asia],
    [name |-> <<"D","e","m","o","c","r","a","t","i","c"," ","P","e","o","p","l","e","'","s"," ","R","e","p","u","b","l","i","c"," ","o","f"," ","K","o","r","e","a">>, iso3 |-> <<"P","R","K">>, region |-> RegionName.ASIA, subregion |-> SubRegionName.Eastern_Asia],
    [name |-> <<"R","e","p","u","b","l","i","c"," ","o","f"," ","K","o","r","e","a">>, iso3 |-> <<"K","O","R">>, region |-> RegionName.ASIA, subregion |-> SubRegionName.Eastern_Asia],
    [name |-> <<"T","a","i","w","a","n">>, iso3 |-> <<"T","W","N">>, region |-> RegionName.ASIA, subregion |-> SubRegionName.Eastern_Asia],
    [name |-> <<"A","f","g","h","a","n","i","s","t","a","n">>, iso3 |-> <<"A","F","G">>, region |-> RegionName.ASIA, subregion |-> SubRegionName.Southern_Asia],
    [name |-> <<"B","a","n","g","l","a","d","e","s","h">>, iso3 |-> <<"B","G","D">>, region |-> RegionName.ASIA, subregion |-> SubRegionName.Southern_Asia],
    [name |-> <<"B","h","u","t","a","n">>, iso3 |-> <<"B","T","N">>, region |-> RegionName.ASIA, subregion |-> SubRegionName.Southern_Asia],
    [name |-> <<"I","n","d","i","a">>, iso3 |-> <<"I","N","D">>, region |-> RegionName.ASIA, subregion |-> SubRegionName.Southern_Asia],
    [name |-> <<"M","a","l","d","i","v","e","s">>, iso3 |-> <<"M","D","V">>, region |-> RegionName.ASIA, subregion |-> SubRegionName.Southern_Asia],
    [name |-> <<"N","e","p","a","l">>, iso3 |-> <<"N","P","L">>, region |-> RegionName.ASIA, subregion |-> SubRegionName.Southern_Asia],
    [name |-> <<"P","a","k","i","s","t","a","n">>, iso3 |-> <<"P","A","K">>, region |-> RegionName.ASIA, subregion |-> SubRegionName.Southern_Asia],
    [name |-> <<"S","r","i"," ","L","a","n","k","a">>, iso3 |-> <<"L","K","A">>, region |-> RegionName.ASIA, subregion |-> SubRegionName.Southern_Asia],
    [name |-> <<"B","r","u","n","e","i"," ","D","a","r","u","s","s","a","l","a","m">>, iso3 |-> <<"B","R","N">>, region |-> RegionName.ASIA, subregion |-> SubRegionName.South_Eastern_Asia],
    [name |-> <<"C","a","m","b","o","d","i","a">>, iso3 |-> <<"K","H","M">>, region |-> RegionName.ASIA, subregion |-> SubRegionName.South_Eastern_Asia],
    [name |-> <<"I","n","d","o","n","e","s","i","a">>, iso3 |-> <<"I","D","N">>, region |-> RegionName.ASIA, subregion |-> SubRegionName.South_Eastern_Asia],
    [name |-> <<"L","a","o"," ","P","e","o","p","l","e","'","s"," ","D","e","m","o","c","r","a","t","i","c"," ","R","e","p","u","b","l","i","c">>, iso3 |-> <<"L","A","O">>, region |-> RegionName.ASIA, subregion |-> SubRegionName.South_Eastern_Asia],
    [name |-> <<"M","a","l","a","y","s","i","a">>, iso3 |-> <<"M","Y","S">>, region |-> RegionName.ASIA, subregion |-> SubRegionName.South_Eastern_Asia],
    [name |-> <<"M","y","a","n","m","a","r">>, iso3 |-> <<"M","M","R">>, region |-> RegionName.ASIA, subregion |-> SubRegionName.South_Eastern_Asia],
    [name |-> <<"P","h","i","l","i","p","p","i","n","e","s">>, iso3 |-> <<"P","H","L">>, region |-> RegionName.ASIA, subregion |-> SubRegionName.South_Eastern_Asia],
    [name |-> <<"S","i","n","g","a","p","o","r","e">>, iso3 |-> <<"S","G","P">>, region |-> RegionName.ASIA, subregion |-> SubRegionName.South_Eastern_Asia],
    [name |-> <<"T","h","a","i","l","a","n","d">>, iso3 |-> <<"T","H","A">>, region |-> RegionName.ASIA, subregion |-> SubRegionName.South_Eastern_Asia],
    [name |-> <<"T","i","m","o","r","-","L","e","s","t","e">>, iso3 |-> <<"T","L","S">>, region |-> RegionName.ASIA, subregion |-> SubRegionName.South_Eastern_Asia],
    [name |-> <<"V","i","e","t","n","a","m">>, iso3 |-> <<"V","N","M">>, region |-> RegionName.ASIA, subregion |-> SubRegionName.South_Eastern_Asia],
    [name |-> <<"A","u","s","t","r","a","l","i","a">>, iso3 |-> <<"A","U","S">>, region |-> RegionName.ASIA, subregion |-> SubRegionName.Oceania],
    [name |-> <<"C","h","r","i","s","t","m","a","s"," ","I","s","l","a","n","d">>, iso3 |-> <<"C","X","R">>, region |-> RegionName.ASIA, subregion |-> SubRegionName.Oceania],
    [name |-> <<"C","o","c","o","s"," ","(","K","e","e","l","i","n","g",")"," ","I","s","l","a","n","d","s">>, iso3 |-> <<"C","C","K">>, region |-> RegionName.ASIA, subregion |-> SubRegionName.Oceania],
    [name |-> <<"H","e","a","r","d"," ","I","s","l","a","n","d"," ","a","n","d"," ","M","c","D","o","n","a","l","d"," ","I","s","l","a","n","d","s">>, iso3 |-> <<"H","M","D">>, region |-> RegionName.ASIA, subregion |-> SubRegionName.Oceania],
    [name |-> <<"N","o","r","f","o","l","k"," ","I","s","l","a","n","d">>, iso3 |-> <<"N","F","K">>, region |-> RegionName.ASIA, subregion |-> SubRegionName.Oceania],
    [name |-> <<"N","e","w"," ","Z","e","a","l","a","n","d">>, iso3 |-> <<"N","Z","L">>, region |-> RegionName.ASIA, subregion |-> SubRegionName.Oceania],
    [name |-> <<"F","i","j","i">>, iso3 |-> <<"F","J","I">>, region |-> RegionName.ASIA, subregion |-> SubRegionName.Oceania],
    [name |-> <<"N","e","w"," ","C","a","l","e","d","o","n","i","a">>, iso3 |-> <<"N","C","L">>, region |-> RegionName.ASIA, subregion |-> SubRegionName.Oceania],
    [name |-> <<"P","a","p","u","a"," ","N","e","w"," ","G","u","i","n","e","a">>, iso3 |-> <<"P","N","G">>, region |-> RegionName.ASIA, subregion |-> SubRegionName.Oceania],
    [name |-> <<"S","o","l","o","m","o","n"," ","I","s","l","a","n","d","s">>, iso3 |-> <<"S","L","B">>, region |-> RegionName.ASIA, subregion |-> SubRegionName.Oceania],
    [name |-> <<"V","a","n","u","a","t","u">>, iso3 |-> <<"V","U","T">>, region |-> RegionName.ASIA, subregion |-> SubRegionName.Oceania],
    [name |-> <<"G","u","a","m">>, iso3 |-> <<"G","U","M">>, region |-> RegionName.ASIA, subregion |-> SubRegionName.Oceania],
    [name |-> <<"K","i","r","i","b","a","t","i">>, iso3 |-> <<"K","I","R">>, region |-> RegionName.ASIA, subregion |-> SubRegionName.Oceania],
    [name |-> <<"M","a","r","s","h","a","l","l"," ","I","s","l","a","n","d","s">>, iso3 |-> <<"M","H","L">>, region |-> RegionName.ASIA, subregion |-> SubRegionName.Oceania],
    [name |-> <<"M","i","c","r","o","n","e","s","i","a"," ","(","F","e","d","e","r","a","t","e","d"," ","S","t","a","t","e","s"," ","o","f",")">>, iso3 |-> <<"F","S","M">>, region |-> RegionName.ASIA, subregion |-> SubRegionName.Oceania],
    [name |-> <<"N","a","u","r","u">>, iso3 |-> <<"N","R","U">>, region |-> RegionName.ASIA, subregion |-> SubRegionName.Oceania],
    [name |-> <<"N","o","r","t","h","e","r","n"," ","M","a","r","i","a","n","a"," ","I","s","l","a","n","d","s">>, iso3 |-> <<"M","N","P">>, region |-> RegionName.ASIA, subregion |-> SubRegionName.Oceania],
    [name |-> <<"P","a","l","a","u">>, iso3 |-> <<"P","L","W">>, region |-> RegionName.ASIA, subregion |-> SubRegionName.Oceania],
    [name |-> <<"U","n","i","t","e","d"," ","S","t","a","t","e","s"," ","M","i","n","o","r"," ","O","u","t","l","y","i","n","g"," ","I","s","l","a","n","d","s">>, iso3 |-> <<"U","M","I">>, region |-> RegionName.ASIA, subregion |-> SubRegionName.Oceania],
    [name |-> <<"A","m","e","r","i","c","a","n"," ","S","a","m","o","a">>, iso3 |-> <<"A","S","M">>, region |-> RegionName.ASIA, subregion |-> SubRegionName.Oceania],
    [name |-> <<"C","o","o","k"," ","I","s","l","a","n","d","s">>, iso3 |-> <<"C","O","K">>, region |-> RegionName.ASIA, subregion |-> SubRegionName.Oceania],
    [name |-> <<"F","r","e","n","c","h"," ","P","o","l","y","n","e","s","i","a">>, iso3 |-> <<"P","Y","F">>, region |-> RegionName.ASIA, subregion |-> SubRegionName.Oceania],
    [name |-> <<"N","i","u","e">>, iso3 |-> <<"N","I","U">>, region |-> RegionName.ASIA, subregion |-> SubRegionName.Oceania],
    [name |-> <<"P","i","t","c","a","i","r","n">>, iso3 |-> <<"P","C","N">>, region |-> RegionName.ASIA, subregion |-> SubRegionName.Oceania],
    [name |-> <<"S","a","m","o","a">>, iso3 |-> <<"W","S","M">>, region |-> RegionName.ASIA, subregion |-> SubRegionName.Oceania],
    [name |-> <<"T","o","k","e","l","a","u">>, iso3 |-> <<"T","K","L">>, region |-> RegionName.ASIA, subregion |-> SubRegionName.Oceania],
    [name |-> <<"T","o","n","g","a">>, iso3 |-> <<"T","O","N">>, region |-> RegionName.ASIA, subregion |-> SubRegionName.Oceania],
    [name |-> <<"T","u","v","a","l","u">>, iso3 |-> <<"T","U","V">>, region |-> RegionName.ASIA, subregion |-> SubRegionName.Oceania],
    [name |-> <<"W","a","l","l","i","s"," ","a","n","d"," ","F","u","t","u","n","a">>, iso3 |-> <<"W","L","F">>, region |-> RegionName.ASIA, subregion |-> SubRegionName.Oceania],
    [name |-> <<"T","u","r","k","e","y">>, iso3 |-> <<"T","U","R">>, region |-> RegionName.MIDDLE_EAST, subregion |-> SubRegionName.Near_East],
    [name |-> <<"I","r","a","q">>, iso3 |-> <<"I","R","Q">>, region |-> RegionName.MIDDLE_EAST, subregion |-> SubRegionName.Near_East],
    [name |-> <<"I","s","r","a","e","l">>, iso3 |-> <<"I","S","R">>, region |-> RegionName.MIDDLE_EAST, subregion |-> SubRegionName.Near_East],
    [name |-> <<"J","o","r","d","a","n">>, iso3 |-> <<"J","O","R">>, region |-> RegionName.MIDDLE_EAST, subregion |-> SubRegionName.Near_East],
    [name |-> <<"K","u","w","a","i","t">>, iso3 |-> <<"K","W","T">>, region |-> RegionName.MIDDLE_EAST, subregion |-> SubRegionName.Near_East],
    [name |-> <<"L","e","b","a","n","o","n">>, iso3 |-> <<"L","B","N">>, region |-> RegionName.MIDDLE_EAST, subregion |-> SubRegionName.Near_East],
    [name |-> <<"S","t","a","t","e"," ","o","f"," ","P","a","l","e","s","t","i","n","e">>, iso3 |-> <<"P","S","E">>, region |-> RegionName.MIDDLE_EAST, subregion |-> SubRegionName.Near_East],
    [name |-> <<"S","y","r","i","a","n"," ","A","r","a","b"," ","R","e","p","u","b","l","i","c">>, iso3 |-> <<"S","Y","R">>, region |-> RegionName.MIDDLE_EAST, subregion |-> SubRegionName.Near_East],
    [name |-> <<"C","y","p","r","u","s">>, iso3 |-> <<"C","Y","P">>, region |-> RegionName.MIDDLE_EAST, subregion |-> SubRegionName.Near_East],
    [name |-> <<"A","r","m","e","n","i","a">>, iso3 |-> <<"A","R","M">>, region |-> RegionName.MIDDLE_EAST, subregion |-> SubRegionName.Far_East],
    [name |-> <<"A","z","e","r","b","a","i","j","a","n">>, iso3 |-> <<"A","Z","E">>, region |-> RegionName.MIDDLE_EAST, subregion |-> SubRegionName.Far_East],
    [name |-> <<"B","a","h","r","a","i","n">>, iso3 |-> <<"B","H","R">>, region |-> RegionName.MIDDLE_EAST, subregion |-> SubRegionName.Far_East],
    [name |-> <<"G","e","o","r","g","i","a">>, iso3 |-> <<"G","E","O">>, region |-> RegionName.MIDDLE_EAST, subregion |-> SubRegionName.Far_East],
    [name |-> <<"I","r","a","n">>, iso3 |-> <<"I","R","N">>, region |-> RegionName.MIDDLE_EAST, subregion |-> SubRegionName.Far_East],
    [name |-> <<"O","m","a","n">>, iso3 |-> <<"O","M","N">>, region |-> RegionName.MIDDLE_EAST, subregion |-> SubRegionName.Far_East],
    [name |-> <<"Q","a","t","a","r">>, iso3 |-> <<"Q","A","T">>, region |-> RegionName.MIDDLE_EAST, subregion |-> SubRegionName.Far_East],
    [name |-> <<"S","a","u","d","i"," ","A","r","a","b","i","a">>, iso3 |-> <<"S","A","U">>, region |-> RegionName.MIDDLE_EAST, subregion |-> SubRegionName.Far_East],
    [name |-> <<"U","n","i","t","e","d"," ","A","r","a","b"," ","E","m","i","r","a","t","e","s">>, iso3 |-> <<"A","R","E">>, region |-> RegionName.MIDDLE_EAST, subregion |-> SubRegionName.Far_East],
    [name |-> <<"Y","e","m","e","n">>, iso3 |-> <<"Y","E","M">>, region |-> RegionName.MIDDLE_EAST, subregion |-> SubRegionName.Far_East],
    [name |-> <<"K","a","z","a","k","h","s","t","a","n">>, iso3 |-> <<"K","A","Z">>, region |-> RegionName.MIDDLE_EAST, subregion |-> SubRegionName.Far_East],
    [name |-> <<"K","y","r","g","y","z","s","t","a","n">>, iso3 |-> <<"K","G","Z">>, region |-> RegionName.MIDDLE_EAST, subregion |-> SubRegionName.Far_East],
    [name |-> <<"T","a","j","i","k","i","s","t","a","n">>, iso3 |-> <<"T","J","K">>, region |-> RegionName.MIDDLE_EAST, subregion |-> SubRegionName.Far_East],
    [name |-> <<"T","u","r","k","m","e","n","i","s","t","a","n">>, iso3 |-> <<"T","K","M">>, region |-> RegionName.MIDDLE_EAST, subregion |-> SubRegionName.Far_East],
    [name |-> <<"U","z","b","e","k","i","s","t","a","n">>, iso3 |-> <<"U","Z","B">>, region |-> RegionName.MIDDLE_EAST, subregion |-> SubRegionName.Far_East],
    [name |-> <<"B","e","l","a","r","u","s">>, iso3 |-> <<"B","L","R">>, region |-> RegionName.EUROPE, subregion |-> SubRegionName.Eastern_Europe],
    [name |-> <<"B","u","l","g","a","r","i","a">>, iso3 |-> <<"B","G","R">>, region |-> RegionName.EUROPE, subregion |-> SubRegionName.Eastern_Europe],
    [name |-> <<"C","z","e","c","h"," ","R","e","p","u","b","l","i","c">>, iso3 |-> <<"C","Z","E">>, region |-> RegionName.EUROPE, subregion |-> SubRegionName.Eastern_Europe],
    [name |-> <<"H","u","n","g","a","r","y">>, iso3 |-> <<"H","U","N">>, region |-> RegionName.EUROPE, subregion |-> SubRegionName.Eastern_Europe],
    [name |-> <<"P","o","l","a","n","d">>, iso3 |-> <<"P","O","L">>, region |-> RegionName.EUROPE, subregion |-> SubRegionName.Eastern_Europe],
    [name |-> <<"R","e","p","u","b","l","i","c"," ","o","f"," ","M","o","l","d","o","v","a">>, iso3 |-> <<"M","D","A">>, region |-> RegionName.EUROPE, subregion |-> SubRegionName.Eastern_Europe],
    [name |-> <<"R","o","m","a","n","i","a">>, iso3 |-> <<"R","O","U">>, region |-> RegionName.EUROPE, subregion |-> SubRegionName.Eastern_Europe],
    [name |-> <<"R","u","s","s","i","a","n"," ","F","e","d","e","r","a","t","i","o","n">>, iso3 |-> <<"R","U","S">>, region |-> RegionName.EUROPE, subregion |-> SubRegionName.Eastern_Europe],
    [name |-> <<"S","l","o","v","a","k","i","a">>, iso3 |-> <<"S","V","K">>, region |-> RegionName.EUROPE, subregion |-> SubRegionName.Eastern_Europe],
    [name |-> <<"U","k","r","a","i","n","e">>, iso3 |-> <<"U","K","R">>, region |-> RegionName.EUROPE, subregion |-> SubRegionName.Eastern_Europe],
    [name |-> <<"A_RING","l","a","n","d"," ","I","s","l","a","n","d","s">>, iso3 |-> <<"A","L","A">>, region |-> RegionName.EUROPE, subregion |-> SubRegionName.Northern_Europe],
    [name |-> <<"C","h","a","n","n","e","l"," ","I","s","l","a","n","d","s"," ","(","G","u","e","r","n","s","e","y",")">>, iso3 |-> <<"G","G","Y">>, region |-> RegionName.EUROPE, subregion |-> SubRegionName.Northern_Europe],
    [name |-> <<"C","h","a","n","n","e","l"," ","I","s","l","a","n","d","s"," ","(","J","e","r","s","e","y",")">>, iso3 |-> <<"J","E","Y">>, region |-> RegionName.EUROPE, subregion |-> SubRegionName.Northern_Europe],
    [name |-> <<"D","e","n","m","a","r","k">>, iso3 |-> <<"D","N","K">>, region |-> RegionName.EUROPE, subregion |-> SubRegionName.Northern_Europe],
    [name |-> <<"E","s","t","o","n","i","a">>, iso3 |-> <<"E","S","T">>, region |-> RegionName.EUROPE, subregion |-> SubRegionName.Northern_Europe],
    [name |-> <<"F","a","r","o","e"," ","I","s","l","a","n","d","s">>, iso3 |-> <<"F","R","O">>, region |-> RegionName.EUROPE, subregion |-> SubRegionName.Northern_Europe],
    [name |-> <<"F","i","n","l","a","n","d">>, iso3 |-> <<"F","I","N">>, region |-> RegionName.EUROPE, subregion |-> SubRegionName.Northern_Europe],
    [name |-> <<"I","c","e","l","a","n","d">>, iso3 |-> <<"I","S","L">>, region |-> RegionName.EUROPE, subregion |-> SubRegionName.Northern_Europe],
    [name |-> <<"I","r","e","l","a","n","d">>, iso3 |-> <<"I","R","L">>, region |-> RegionName.EUROPE, subregion |-> SubRegionName.Northern_Europe],
    [name |-> <<"I","s","l","e"," ","o","f"," ","M","a","n">>, iso3 |-> <<"I","M","N">>, region |-> RegionName.EUROPE, subregion |-> SubRegionName.Northern_Europe],
    [name |-> <<"L","a","t","v","i","a">>, iso3 |-> <<"L","V","A">>, region |-> RegionName.EUROPE, subregion |-> SubRegionName.Northern_Europe],
    [name |-> <<"L","i","t","h","u","a","n","i","a">>, iso3 |-> <<"L","T","U">>, region |-> RegionName.EUROPE, subregion |-> SubRegionName.Northern_Europe],
    [name |-> <<"N","o","r","w","a","y">>, iso3 |-> <<"N","O","R">>, region |-> RegionName.EUROPE, subregion |-> SubRegionName.Northern_Europe],
    [name |-> <<"S","v","a","l","b","a","r","d"," ","a","n","d"," ","J","a","n"," ","M","a","y","e","n">>, iso3 |-> <<"S","J","M">>, region |-> RegionName.EUROPE, subregion |-> SubRegionName.Northern_Europe],
    [name |-> <<"S","w","e","d","e","n">>, iso3 |-> <<"S","W","E">>, region |-> RegionName.EUROPE, subregion |-> SubRegionName.Northern_Europe],
    [name |-> <<"U","n","i","t","e","d"," ","K","i","n","g","d","o","m">>, iso3 |-> <<"G","B","R">>, region |-> RegionName.EUROPE, subregion |-> SubRegionName.Northern_Europe],
    [name |-> <<"A","l","b","a","n","i","a">>, iso3 |-> <<"A","L","B">>, region |-> RegionName.EUROPE, subregion |-> SubRegionName.Southern_Europe],
    [name |-> <<"A","n","d","o","r","r","a">>, iso3 |-> <<"A","N","D">>, region |-> RegionName.EUROPE, subregion |-> SubRegionName.Southern_Europe],
    [name |-> <<"B","o","s","n","i","a"," ","a","n","d"," ","H","e","r","z","e","g","o","v","i","n","a">>, iso3 |-> <<"B","I","H">>, region |-> RegionName.EUROPE, subregion |-> SubRegionName.Southern_Europe],
    [name |-> <<"C","r","o","a","t","i","a">>, iso3 |-> <<"H","R","V">>, region |-> RegionName.EUROPE, subregion |-> SubRegionName.Southern_Europe],
    [name |-> <<"G","i","b","r","a","l","t","a","r">>, iso3 |-> <<"G","I","B">>, region |-> RegionName.EUROPE, subregion |-> SubRegionName.Southern_Europe],
    [name |-> <<"G","r","e","e","c","e">>, iso3 |-> <<"G","R","C">>, region |-> RegionName.EUROPE, subregion |-> SubRegionName.Southern_Europe],
    [name |-> <<"H","o","l","y"," ","S","e","e">>, iso3 |-> <<"V","A","T">>, region |-> RegionName.EUROPE, subregion |-> SubRegionName.Southern_Europe],
    [name |-> <<"I","t","a","l","y">>, iso3 |-> <<"I","T","A">>, region |-> RegionName.EUROPE, subregion |-> SubRegionName.Southern_Europe],
    [name |-> <<"M","a","l","t","a">>, iso3 |-> <<"M","L","T">>, region |-> RegionName.EUROPE, subregion |-> SubRegionName.Southern_Europe],
    [name |-> <<"M","o","n","t","e","n","e","g","r","o">>, iso3 |-> <<"M","N","E">>, region |-> RegionName.EUROPE, subregion |-> SubRegionName.Southern_Europe],
    [name |-> <<"N","o","r","t","h"," ","M","a","c","e","d","o","n","i","a">>, iso3 |-> <<"M","K","D">>, region |-> RegionName.EUROPE, subregion |-> SubRegionName.Southern_Europe],
    [name |-> <<"P","o","r","t","u","g","a","l">>, iso3 |-> <<"P","R","T">>, region |-> RegionName.EUROPE, subregion |-> SubRegionName.Southern_Europe],
    [name |-> <<"S","a","n"," ","M","a","r","i","n","o">>, iso3 |-> <<"S","M","R">>, region |-> RegionName.EUROPE, subregion |-> SubRegionName.Southern_Europe],
    [name |-> <<"S","e","r","b","i","a">>, iso3 |-> <<"S","R","B">>, region |-> RegionName.EUROPE, subregion |-> SubRegionName.Southern_Europe],
    [name |-> <<"S","l","o","v","e","n","i","a">>, iso3 |-> <<"S","V","N">>, region |-> RegionName.EUROPE, subregion |-> SubRegionName.Southern_Europe],
    [name |-> <<"S","p","a","i","n">>, iso3 |-> <<"E","S","P">>, region |-> RegionName.EUROPE, subregion |-> SubRegionName.Southern_Europe],
    [name |-> <<"A","u","s","t","r","i","a">>, iso3 |-> <<"A","U","T">>, region |-> RegionName.EUROPE, subregion |-> SubRegionName.Western_Europe],
    [name |-> <<"B","e","l","g","i","u","m">>, iso3 |-> <<"B","E","L">>, region |-> RegionName.EUROPE, subregion |-> SubRegionName.Western_Europe],
    [name |-> <<"F","r","a","n","c","e">>, iso3 |-> <<"F","R","A">>, region |-> RegionName.EUROPE, subregion |-> SubRegionName.Western_Europe],
    [name |-> <<"G","e","r","m","a","n","y">>, iso3 |-> <<"D","E","U">>, region |-> RegionName.EUROPE, subregion |-> SubRegionName.Western_Europe],
    [name |-> <<"L","i","e","c","h","t","e","n","s","t","e","i","n">>, iso3 |-> <<"L","I","E">>, region |-> RegionName.EUROPE, subregion |-> SubRegionName.Western_Europe],
    [name |-> <<"L","u","x","e","m","b","o","u","r","g">>, iso3 |-> <<"L","U","X">>, region |-> RegionName.EUROPE, subregion |-> SubRegionName.Western_Europe],
    [name |-> <<"M","o","n","a","c","o">>, iso3 |-> <<"M","C","O">>, region |-> RegionName.EUROPE, subregion |-> SubRegionName.Western_Europe],
    [name |-> <<"N","e","t","h","e","r","l","a","n","d","s">>, iso3 |-> <<"N","L","D">>, region |-> RegionName.EUROPE, subregion |-> SubRegionName.Western_Europe],
    [name |-> <<"S","w","i","t","z","e","r","l","a","n","d">>, iso3 |-> <<"C","H","E">>, region |-> RegionName.EUROPE, subregion |-> SubRegionName.Western_Europe]
  >>

\* ALTERNATIVE_NAMES of the dashboard's copy.
DASHBOARD_ALTERNATIVE_NAMES ==
  <<
    <<<<"U","S","A">>, <<"U","S","A">>>>,
    <<<<"U","S">>, <<"U","S","A">>>>,
    <<<<"U","N","I","T","E","D"," ","S","T","A","T","E","S"," ","O","F"," ","A","M","E","R","I","C","A">>, <<"U","S","A">>>>,
    <<<<"U","K">>, <<"G","B","R">>>>,
    <<<<"B","R","I","T","A","I","N">>, <<"G","B","R">>>>,
    <<<<"G","R","E","A","T"," ","B","R","I","T","A","I","N">>, <<"G","B","R">>>>,
    <<<<"U","A","E">>, <<"A","R","E">>>>,
    <<<<"E","M","I","R","A","T","E","S">>, <<"A","R","E">>>>,
    <<<<"D","R","C">>, <<"C","O","D">>>>,
    <<<<"D","R"," ","C","O","N","G","O">>, <<"C","O","D">>>>,
    <<<<"C","O","N","G","O","-","K","I","N","S","H","A","S","A">>, <<"C","O","D">>>>,
    <<<<"C","O","N","G","O","-","B","R","A","Z","Z","A","V","I","L","L","E">>, <<"C","O","G">>>>,
    <<<<"R","E","P","U","B","L","I","C"," ","O","F"," ","C","O","N","G","O">>, <<"C","O","G">>>>,
    <<<<"I","V","O","R","Y"," ","C","O","A","S","T">>, <<"C","I","V">>>>,
    <<<<"C","O","T","E"," ","D","I","V","O","I","R","E">>, <<"C","I","V">>>>,
    <<<<"C","A","B","O"," ","V","E","R","D","E">>, <<"C","P","V">>>>,
    <<<<"C","A","P","E"," ","V","E","R","D","E"," ","I","S","L","A","N","D","S">>, <<"C","P","V">>>>,
    <<<<"C","Z","E","C","H","I","A">>, <<"C","Z","E">>>>,
    <<<<"C","Z","E","C","H">>, <<"C","Z","E">>>>,
    <<<<"N","O","R","T","H"," ","K","O","R","E","A">>, <<"P","R","K">>>>,
    <<<<"D","P","R","K">>, <<"P","R","K">>>>,
    <<<<"S","O","U","T","H"," ","K","O","R","E","A">>, <<"K","O","R">>>>,
    <<<<"R","O","K">>, <<"K","O","R">>>>,
    <<<<"K","O","R","E","A">>, <<"K","O","R">>>>,
    <<<<"P","A","L","E","S","T","I","N","E">>, <<"P","S","E">>>>,
    <<<<"P","A","L","E","S","T","I","N","I","A","N"," ","T","E","R","R","I","T","O","R","I","E","S">>, <<"P","S","E">>>>,
    <<<<"S","Y","R","I","A">>, <<"S","Y","R">>>>,
    <<<<"I","R","A","N"," ","(","I","S","L","A","M","I","C"," ","R","E","P","U","B","L","I","C"," ","O","F",")">>, <<"I","R","N">>>>,
    <<<<"R","U","S","S","I","A">>, <<"R","U","S">>>>,
    <<<<"R","U","S","S","I","A","N"," ","F","E","D">>, <<"R","U","S">>>>,
    <<<<"V","I","E","T","N","A","M">>, <<"V","N","M">>>>,
    <<<<"V","I","E","T"," ","N","A","M">>, <<"V","N","M">>>>,
    <<<<"L","A","O","S">>, <<"L","A","O">>>>,
    <<<<"L","A","O"," ","P","D","R">>, <<"L","A","O">>>>,
    <<<<"B","R","U","N","E","I">>, <<"B","R","N">>>>,
    <<<<"M","Y","A","N","M","A","R"," ","(","B","U","R","M","A",")">>, <<"M","M","R">>>>,
    <<<<"B","U","R","M","A">>, <<"M","M","R">>>>,
    <<<<"E","A","S","T"," ","T","I","M","O","R">>, <<"T","L","S">>>>,
    <<<<"T","I","M","O","R"," ","L","E","S","T","E">>, <<"T","L","S">>>>,
    <<<<"S","W","A","Z","I","L","A","N","D">>, <<"S","W","Z">>>>,
    <<<<"K","I","N","G","D","O","M"," ","O","F"," ","E","S","W","A","T","I","N","I">>, <<"S","W","Z">>>>,
    <<<<"M","A","C","E","D","O","N","I","A">>, <<"M","K","D">>>>,
    <<<<"N","O","R","T","H"," ","M","A","C","E","D","O","N","I","A"," ","(","F","Y","R","O","M",")">>, <<"M","K","D">>>>,
    <<<<"F","Y","R","O","M">>, <<"M","K","D">>>>,
    <<<<"V","A","T","I","C","A","N"," ","C","I","T","Y">>, <<"V","A","T">>>>,
    <<<<"V","A","T","I","C","A","N">>, <<"V","A","T">>>>,
    <<<<"H","O","L","Y"," ","S","E","E"," ","(","V","A","T","I","C","A","N"," ","C","I","T","Y",")">>, <<"V","A","T">>>>,
    <<<<"B","O","S","N","I","A">>, <<"B","I","H">>>>,
    <<<<"B","O","S","N","I","A","-","H","E","R","Z","E","G","O","V","I","N","A">>, <<"B","I","H">>>>,
    <<<<"M","I","C","R","O","N","E","S","I","A">>, <<"F","S","M">>>>,
    <<<<"F","S","M">>, <<"F","S","M">>>>,
    <<<<"S","A","O"," ","T","O","M","E">>, <<"S","T","P">>>>,
    <<<<"S","A","O"," ","T","O","M","E"," ","A","N","D"," ","P","R","I","N","C","I","P","E">>, <<"S","T","P">>>>,
    <<<<"G","U","I","N","E","A"," ","B","I","S","S","A","U">>, <<"G","N","B">>>>,
    <<<<"G","U","I","N","E","E","-","B","I","S","S","A","U">>, <<"G","N","B">>>>,
    <<<<"V","I","R","G","I","N"," ","I","S","L","A","N","D","S">>, <<"V","I","R">>>>,
    <<<<"U","S"," ","V","I","R","G","I","N"," ","I","S","L","A","N","D","S">>, <<"V","I","R">>>>,
    <<<<"U","S","V","I">>, <<"V","I","R">>>>,
    <<<<"B","V","I">>, <<"V","G","B">>>>,
    <<<<"B","R","I","T","I","S","H"," ","V","I","R","G","I","N"," ","I","S","L","A","N","D","S">>, <<"V","G","B">>>>,
    <<<<"N","E","T","H","E","R","L","A","N","D"," ","A","N","T","I","L","L","E","S">>, <<"B","E","S">>>>,
    <<<<"D","U","T","C","H"," ","C","A","R","I","B","B","E","A","N">>, <<"B","E","S">>>>,
    <<<<"S","T"," ","K","I","T","T","S">>, <<"K","N","A">>>>,
    <<<<"S","T"," ","L","U","C","I","A">>, <<"L","C","A">>>>,
    <<<<"S","T"," ","V","I","N","C","E","N","T">>, <<"V","C","T">>>>,
    <<<<"S","T"," ","M","A","R","T","I","N">>, <<"M","A","F">>>>,
    <<<<"S","A","I","N","T"," ","M","A","R","T","I","N"," ","(","F","R","E","N","C","H",")">>, <<"M","A","F">>>>,
    <<<<"S","I","N","T"," ","M","A","A","R","T","E","N">>, <<"S","X","M">>>>,
    <<<<"S","T"," ","M","A","A","R","T","E","N">>, <<"S","X","M">>>>,
    <<<<"S","A","I","N","T"," ","M","A","R","T","I","N"," ","(","D","U","T","C","H",")">>, <<"S","X","M">>>>
  >>

\* Alternative names of which one carries a code outside the taxonomy and
\* another is a display name with the code of a different country.
ALTERNATIVE_NAMES_astray ==
  <<
    <<<<"H","O","L","L","A","N","D">>, <<"N","L","D">>>>,
    <<<<"B","U","R","M","A">>, <<"B","U","R">>>>,
    <<<<"N","E","T","H","E","R","L","A","N","D","S">>, <<"B","E","L">>>>
  >>

\* ALTERNATIVE_NAMES in declaration order: <<alternative name, ISO3>>.
ALTERNATIVE_NAMES ==
  <<
    <<<<"U","S","A">>, <<"U","S","A">>>>,
    <<<<"U","S">>, <<"U","S","A">>>>,
    <<<<"U","N","I","T","E","D"," ","S","T","A","T","E","S"," ","O","F"," ","A","M","E","R","I","C","A">>, <<"U","S","A">>>>,
    <<<<"U","N","I","T","E","D"," ","S","T","A","T","E","S">>, <<"U","S","A">>>>,
    <<<<"U","K">>, <<"G","B","R">>>>,
    <<<<"B","R","I","T","A","I","N">>, <<"G","B","R">>>>,
    <<<<"G","R","E","A","T"," ","B","R","I","T","A","I","N">>, <<"G","B","R">>>>,
    <<<<"E","N","G","L","A","N","D">>, <<"G","B","R">>>>,
    <<<<"U","A","E">>, <<"A","R","E">>>>,
    <<<<"E","M","I","R","A","T","E","S">>, <<"A","R","E">>>>,
    <<<<"D","R","C">>, <<"C","O","D">>>>,
    <<<<"D","R"," ","C","O","N","G","O">>, <<"C","O","D">>>>,
    <<<<"C","O","N","G","O","-","K","I","N","S","H","A","S","A">>, <<"C","O","D">>>>,
    <<<<"C","O","N","G","O"," ","K","I","N","S","H","A","S","A">>, <<"C","O","D">>>>,
    <<<<"C","O","N","G","O","-","B","R","A","Z","Z","A","V","I","L","L","E">>, <<"C","O","G">>>>,
    <<<<"R","E","P","U","B","L","I","C"," ","O","F"," ","C","O","N","G","O">>, <<"C","O","G">>>>,
    <<<<"C","O","N","G","O"," ","B","R","A","Z","Z","A","V","I","L","L","E">>, <<"C","O","G">>>>,
    <<<<"I","V","O","R","Y"," ","C","O","A","S","T">>, <<"C","I","V">>>>,
    <<<<"C","O","T","E"," ","D","I","V","O","I","R","E">>, <<"C","I","V">>>>,
    <<<<"C","O","T","E"," ","D","'","I","V","O","I","R","E">>, <<"C","I","V">>>>,
    <<<<"C","A","B","O"," ","V","E","R","D","E">>, <<"C","P","V">>>>,
    <<<<"C","A","P","E"," ","V","E","R","D","E">>, <<"C","P","V">>>>,
    <<<<"C","A","P","E"," ","V","E","R","D","E"," ","I","S","L","A","N","D","S">>, <<"C","P","V">>>>,
    <<<<"C","Z","E","C","H","I","A">>, <<"C","Z","E">>>>,
    <<<<"C","Z","E","C","H">>, <<"C","Z","E">>>>,
    <<<<"N","O","R","T","H"," ","K","O","R","E","A">>, <<"P","R","K">>>>,
    <<<<"D","P","R","K">>, <<"P","R","K">>>>,
    <<<<"D","E","M","O","C","R","A","T","I","C"," ","P","E","O","P","L","E","'","S"," ","R","E","P","U","B","L","I","C"," ","O","F"," ","K","O","R","E","A">>, <<"P","R","K">>>>,
    <<<<"S","O","U","T","H"," ","K","O","R","E","A">>, <<"K","O","R">>>>,
    <<<<"R","O","K">>, <<"K","O","R">>>>,
    <<<<"K","O","R","E","A">>, <<"K","O","R">>>>,
    <<<<"R","E","P","U","B","L","I","C"," ","O","F"," ","K","O","R","E","A">>, <<"K","O","R">>>>,
    <<<<"P","A","L","E","S","T","I","N","E">>, <<"P","S","E">>>>,
    <<<<"P","A","L","E","S","T","I","N","I","A","N"," ","T","E","R","R","I","T","O","R","I","E","S">>, <<"P","S","E">>>>,
    <<<<"S","T","A","T","E"," ","O","F"," ","P","A","L","E","S","T","I","N","E">>, <<"P","S","E">>>>,
    <<<<"S","Y","R","I","A">>, <<"S","Y","R">>>>,
    <<<<"S","Y","R","I","A","N"," ","A","R","A","B"," ","R","E","P","U","B","L","I","C">>, <<"S","Y","R">>>>,
    <<<<"R","U","S","S","I","A">>, <<"R","U","S">>>>,
    <<<<"R","U","S","S","I","A","N"," ","F","E","D">>, <<"R","U","S">>>>,
    <<<<"R","U","S","S","I","A","N"," ","F","E","D","E","R","A","T","I","O","N">>, <<"R","U","S">>>>,
    <<<<"V","I","E","T","N","A","M">>, <<"V","N","M">>>>,
    <<<<"V","I","E","T"," ","N","A","M">>, <<"V","N","M">>>>,
    <<<<"L","A","O","S">>, <<"L","A","O">>>>,
    <<<<"L","A","O"," ","P","D","R">>, <<"L","A","O">>>>,
    <<<<"L","A","O"," ","P","E","O","P","L","E","'","S"," ","D","E","M","O","C","R","A","T","I","C"," ","R","E","P","U","B","L","I","C">>, <<"L","A","O">>>>,
    <<<<"B","R","U","N","E","I">>, <<"B","R","N">>>>,
    <<<<"B","R","U","N","E","I"," ","D","A","R","U","S","S","A","L","A","M">>, <<"B","R","N">>>>,
    <<<<"M","Y","A","N","M","A","R">>, <<"M","M","R">>>>,
    <<<<"B","U","R","M","A">>, <<"M","M","R">>>>,
    <<<<"T","I","M","O","R","-","L","E","S","T","E">>, <<"T","L","S">>>>,
    <<<<"E","A","S","T"," ","T","I","M","O","R">>, <<"T","L","S">>>>,
    <<<<"T","I","M","O","R"," ","L","E","S","T","E">>, <<"T","L","S">>>>,
    <<<<"M","A","C","E","D","O","N","I","A">>, <<"M","K","D">>>>,
    <<<<"N","O","R","T","H"," ","M","A","C","E","D","O","N","I","A">>, <<"M","K","D">>>>,
    <<<<"F","Y","R","O","M">>, <<"M","K","D">>>>,
    <<<<"S","W","A","Z","I","L","A","N","D">>, <<"S","W","Z">>>>,
    <<<<"K","I","N","G","D","O","M"," ","O","F"," ","E","S","W","A","T","I","N","I">>, <<"S","W","Z">>>>,
    <<<<"E","S","W","A","T","I","N","I">>, <<"S","W","Z">>>>,
    <<<<"M","I","C","R","O","N","E","S","I","A">>, <<"F","S","M">>>>,
    <<<<"F","E","D","E","R","A","T","E","D"," ","S","T","A","T","E","S"," ","O","F"," ","M","I","C","R","O","N","E","S","I","A">>, <<"F","S","M">>>>,
    <<<<"S","A","O"," ","T","O","M","E">>, <<"S","T","P">>>>,
    <<<<"S","A","O"," ","T","O","M","E"," ","A","N","D"," ","P","R","I","N","C","I","P","E">>, <<"S","T","P">>>>,
    <<<<"S","A_TILDE","O"," ","T","O","M","E_ACUTE"," ","A","N","D"," ","P","R","I_ACUTE","N","C","I","P","E">>, <<"S","T","P">>>>,
    <<<<"N","E","T","H","E","R","L","A","N","D","S">>, <<"N","L","D">>>>,
    <<<<"H","O","L","L","A","N","D">>, <<"N","L","D">>>>,
    <<<<"B","O","S","N","I","A">>, <<"B","I","H">>>>,
    <<<<"B","O","S","N","I","A","-","H","E","R","Z","E","G","O","V","I","N","A">>, <<"B","I","H">>>>,
    <<<<"V","A","T","I","C","A","N">>, <<"V","A","T">>>>,
    <<<<"V","A","T","I","C","A","N"," ","C","I","T","Y">>, <<"V","A","T">>>>,
    <<<<"H","O","L","Y"," ","S","E","E">>, <<"V","A","T">>>>
  >>

\* The ISO2 table of identify_country: <<ISO2, ISO3>>.
iso2_to_iso3 ==
  <<
    <<<<"U","S">>, <<"U","S","A">>>>, <<<<"G","B">>, <<"G","B","R">>>>, <<<<"F","R">>, <<"F","R","A">>>>, <<<<"D","E">>, <<"D","E","U">>>>,
    <<<<"I","T">>, <<"I","T","A">>>>, <<<<"E","S">>, <<"E","S","P">>>>, <<<<"C","A">>, <<"C","A","N">>>>, <<<<"A","U">>, <<"A","U","S">>>>,
    <<<<"J","P">>, <<"J","P","N">>>>, <<<<"C","N">>, <<"C","H","N">>>>, <<<<"I","N">>, <<"I","N","D">>>>, <<<<"B","R">>, <<"B","R","A">>>>,
    <<<<"M","X">>, <<"M","E","X">>>>, <<<<"Z","A">>, <<"Z","A","F">>>>, <<<<"N","G">>, <<"N","G","A">>>>, <<<<"E","G">>, <<"E","G","Y">>>>,
    <<<<"K","E">>, <<"K","E","N">>>>, <<<<"S","A">>, <<"S","A","U">>>>, <<<<"A","E">>, <<"A","R","E">>>>, <<<<"I","L">>, <<"I","S","R">>>>,
    <<<<"T","R">>, <<"T","U","R">>>>, <<<<"P","L">>, <<"P","O","L">>>>, <<<<"N","L">>, <<"N","L","D">>>>, <<<<"B","E">>, <<"B","E","L">>>>,
    <<<<"C","H">>, <<"C","H","E">>>>
  >>

----------------------------------------------------------------------------
(* GlobalCountryManager.__init__: the lookup structures *)

\* An insertion-ordered dict as a sequence of <<key, value>>.
dict_has(d, k) == \E i \in DOMAIN d : d[i][1] = k
dict_get(d, k) == d[CHOOSE i \in DOMAIN d : d[i][1] = k][2]
dict_keys(d) == {d[i][1] : i \in DOMAIN d}

\* d[k] = v: the value of a key that is present is replaced where it stands,
\* a new key is added at the end.
dict_set(d, k, v) ==
  IF dict_has(d, k)
  THEN [i \in DOMAIN d |-> IF d[i][1] = k THEN <<k, v>> ELSE d[i]]
  ELSE Append(d, <<k, v>>)

\* The dict left by the assignments d[key] = value made in the order of
\* items: a key stands where it was first assigned and holds the value it
\* was last assigned.  firsts lists the places of the first assignments.
dict_pick(items, firsts) ==
  LET last(i) == Max({j \in DOMAIN items : items[j][1] = items[i][1]})
      d       == [k \in DOMAIN firsts |->
                    <<items[firsts[k]][1], items[last(firsts[k])][2]>>]
  IN  SubSeq(d, 1, Len(firsts))
dict_of(items) ==
  LET is_first(i) == \A j \in 1..(i - 1) : items[j][1] # items[i][1]
  IN  dict_pick(items, SelectSeq([i \in DOMAIN items |-> i], is_first))

\* The instance __init__ builds from the two class tables:
\*   all_countries    country or alternative name, upper-cased -> ISO3
\*   iso3_to_country  ISO3 -> country name
\*   iso3_to_region   ISO3 -> (region, sub-region)
\*   subregion_countries  (region, sub-region) -> the ISO3 codes listed under it
\*   all_iso3_codes   the keys of iso3_to_country
country_manager_init(regions, alternative_names) ==
  LET n == Len(regions)
      names   == SubSeq([i \in 1..n |-> <<str_upper(regions[i].name), regions[i].iso3>>], 1, n)
      alts    == SubSeq([i \in DOMAIN alternative_names |->
                           <<str_upper(alternative_names[i][1]), alternative_names[i][2]>>],
                        1, Len(alternative_names))
      by_iso3 == SubSeq([i \in 1..n |-> <<regions[i].iso3, regions[i].name>>], 1, n)
      places  == SubSeq([i \in 1..n |->
                           <<regions[i].iso3, <<regions[i].region, regions[i].subregion>> >>], 1, n)
      listed(i) == SelectSeq(regions, LAMBDA e : e.region = regions[i].region
                                                 /\ e.subregion = regions[i].subregion)
      lists   == SubSeq([i \in 1..n |->
                           << <<regions[i].region, regions[i].subregion>>,
                              SubSeq([j \in 1..Len(listed(i)) |-> listed(i)[j].iso3],
                                     1, Len(listed(i))) >>], 1, n)
  IN  [ all_countries   |-> dict_of(names \o alts),
        iso3_to_country |-> dict_of(by_iso3),
        iso3_to_region  |-> dict_of(places),
        subregion_countries |-> dict_of(lists),
        all_iso3_codes  |-> dict_keys(dict_of(by_iso3)) ]

GlobalCountryManager == country_manager_init(GEOGRAPHIC_REGIONS, ALTERNATIVE_NAMES)

\* The two copies of the module and the class tables of each.
Modules == {"global_sam_utils", "global-sam-dashboard/global_sam_utils"}
class_tables(m) ==
  IF m = "global_sam_utils"
  THEN [GEOGRAPHIC_REGIONS |-> GEOGRAPHIC_REGIONS, ALTERNATIVE_NAMES |-> ALTERNATIVE_NAMES]
  ELSE [GEOGRAPHIC_REGIONS |-> DASHBOARD_GEOGRAPHIC_REGIONS,
        ALTERNATIVE_NAMES |-> DASHBOARD_ALTERNATIVE_NAMES]

\* The steps __init__ takes: one per country, one per alternative name, and
\* the making of all_iso3_codes.
init_steps(m) ==
  Len(class_tables(m).GEOGRAPHIC_REGIONS) + Len(class_tables(m).ALTERNATIVE_NAMES) + 1

----------------------------------------------------------------------------
(* GlobalCountryManager.identify_country *)

sentinels ==
  { <<"N","O","N","E">>, <<"N","U","L","L">>, <<"N","/","A">>,
    <<"U","N","K","N","O","W","N">>, <<>> }

\* A search that finds no group.
search_paren_none(s) == None

\* re.search(r'\(([A-Z]{3})\)', s): group 1 of the leftmost match, or None.
search_paren_iso(s) ==
  LET hits == {i \in 1..(Len(s) - 4) :
                 /\ s[i] = "("
                 /\ \A j \in 1..3 : s[i + j] \in ascii_uppercase
                 /\ s[i + 4] = ")"}
  IN  IF hits = {} THEN None ELSE SubSeq(s, Min(hits) + 1, Min(hits) + 3)

\* A partial match that answers with the last entry that matches.
partial_match_last(all_countries, value_clean) ==
  LET hits == {i \in DOMAIN all_countries :
                 \/ str_contains(value_clean, all_countries[i][1])
                 \/ str_contains(all_countries[i][1], value_clean)}
  IN  IF hits = {} THEN None ELSE all_countries[Max(hits)][2]

\* The partial match: the value of the first entry of all_countries, in
\* iteration order, that is inside the text or holds it.
partial_match(all_countries, value_clean) ==
  LET hits == {i \in DOMAIN all_countries :
                 \/ str_contains(value_clean, all_countries[i][1])
                 \/ str_contains(all_countries[i][1], value_clean)}
  IN  IF hits = {} THEN None ELSE all_countries[Min(hits)][2]

\* An identify_country that tries the partial match before the parentheses.
identify_country_partial_first(self, value) ==
  IF value = None \/ value = <<>> THEN None
  ELSE
    LET value_clean == str_strip(str_upper(value))
        iso_match   == search_paren_iso(value_clean)
        partial     == partial_match(self.all_countries, value_clean)
    IN  IF value_clean \in sentinels THEN None
        ELSE IF Len(value_clean) = 3 /\ str_isalpha(value_clean)
                /\ value_clean \in self.all_iso3_codes
          THEN value_clean
        ELSE IF dict_has(self.all_countries, value_clean)
          THEN dict_get(self.all_countries, value_clean)
        ELSE IF Len(value_clean) > 3 /\ partial # None
          THEN partial
        ELSE IF /\ "(" \in Range(value_clean) /\ ")" \in Range(value_clean)
                /\ iso_match # None /\ iso_match \in self.all_iso3_codes
          THEN iso_match
        ELSE IF Len(value_clean) = 2 /\ dict_has(iso2_to_iso3, value_clean)
          THEN dict_get(iso2_to_iso3, value_clean)
        ELSE None

\* An identify_country that takes the parenthesised code on trust.
identify_country_unchecked(self, value) ==
  IF value = None \/ value = <<>> THEN None
  ELSE
    LET value_clean == str_strip(str_upper(value))
        iso_match   == search_paren_iso(value_clean)
    IN  IF value_clean \in sentinels THEN None
        ELSE IF Len(value_clean) = 3 /\ str_isalpha(value_clean)
                /\ value_clean \in self.all_iso3_codes
          THEN value_clean
        ELSE IF dict_has(self.all_countries, value_clean)
          THEN dict_get(self.all_countries, value_clean)
        ELSE IF /\ "(" \in Range(value_clean) /\ ")" \in Range(value_clean)
                /\ iso_match # None
          THEN iso_match
        ELSE IF Len(value_clean) = 2 /\ dict_has(iso2_to_iso3, value_clean)
          THEN dict_get(iso2_to_iso3, value_clean)
        ELSE IF Len(value_clean) > 3
          THEN partial_match(self.all_countries, value_clean)
        ELSE None

identify_country(self, value) ==
  IF value = None \/ value = <<>> THEN None
  ELSE
    LET value_clean == str_strip(str_upper(value))
        iso_match   == search_paren_iso(value_clean)
    IN  IF value_clean \in sentinels THEN None
        ELSE IF Len(value_clean) = 3 /\ str_isalpha(value_clean)
                /\ value_clean \in self.all_iso3_codes
          THEN value_clean
        ELSE IF dict_has(self.all_countries, value_clean)
          THEN dict_get(self.all_countries, value_clean)
        ELSE IF /\ "(" \in Range(value_clean) /\ ")" \in Range(value_clean)
                /\ iso_match # None /\ iso_match \in self.all_iso3_codes
          THEN iso_match
        ELSE IF Len(value_clean) = 2 /\ dict_has(iso2_to_iso3, value_clean)
          THEN dict_get(iso2_to_iso3, value_clean)
        ELSE IF Len(value_clean) > 3
          THEN partial_match(self.all_countries, value_clean)
        ELSE None

\* A get_region that knows no code.
get_region_none(self, iso3) == None

\* get_region: iso3_to_region.get(iso3).
get_region(self, iso3) ==
  IF dict_has(self.iso3_to_region, iso3) THEN dict_get(self.iso3_to_region, iso3) ELSE None

\* standardize_country: 'COUNTRY NAME (ISO3)' or None.
standardize_country(self, value) ==
  LET iso3 == identify_country(self, value)
  IN  IF iso3 # None /\ dict_has(self.iso3_to_country, iso3)
      THEN dict_get(self.iso3_to_country, iso3) \o <<" ", "(">> \o iso3 \o <<")">>
      ELSE None

\* get_countries_by_subregion: the codes listed under the sub-region, or [].
get_countries_by_subregion(self, region, subregion) ==
  IF dict_has(self.subregion_countries, <<region, subregion>>)
  THEN dict_get(self.subregion_countries, <<region, subregion>>)
  ELSE <<>>

----------------------------------------------------------------------------
(* GlobalDatabaseManager.normalize_posted_date *)

\* re.match(r'^\d{4}-\d{2}-\d{2}$', s): $ matches at the end of the text and
\* before a newline that ends it.
is_iso_date(s) ==
  /\ Len(s) = 10 \/ (Len(s) = 11 /\ s[11] = "\n")
  /\ \A i \in {1, 2, 3, 4, 6, 7, 9, 10} : s[i] \in digits
  /\ s[5] = "-" /\ s[8] = "-"

digit_chars == <<"0","1","2","3","4","5","6","7","8","9">>
digit_value(c) == (CHOOSE i \in DOMAIN digit_chars : digit_chars[i] = c) - 1
digit_char(n) == digit_chars[n + 1]

RECURSIVE int_of(_)
int_of(s) == IF s = <<>> THEN 0 ELSE 10 * int_of(SubSeq(s, 1, Len(s) - 1)) + digit_value(s[Len(s)])

days_in_month(y, m) ==
  IF m = 2
  THEN IF (y % 4 = 0 /\ y % 100 # 0) \/ y % 400 = 0 THEN 29 ELSE 28
  ELSE IF m \in {4, 6, 9, 11} THEN 30 ELSE 31

NaT == <<>>

\* pd.to_datetime(s, errors='coerce'), as far as the model takes it: a date
\* written MM/DD/YYYY parses to <<year, month, day>>; any other text is NaT.
to_datetime(s) ==
  IF /\ Len(s) = 10
     /\ \A i \in {1, 2, 4, 5, 7, 8, 9, 10} : s[i] \in digits
     /\ s[3] = "/" /\ s[6] = "/"
  THEN LET m == int_of(SubSeq(s, 1, 2))
           d == int_of(SubSeq(s, 4, 5))
           y == int_of(SubSeq(s, 7, 10))
       IN  IF /\ y > 1677 /\ y < 2262
              /\ m >= 1 /\ m <= 12
              /\ d >= 1 /\ d <= days_in_month(y, m)
           THEN <<y, m, d>> ELSE NaT
  ELSE NaT

\* parsed.strftime('%Y-%m-%d')
strftime(parsed) ==
  LET y == parsed[1]
      m == parsed[2]
      d == parsed[3]
  IN  << digit_char(y \div 1000), digit_char((y \div 100) % 10),
         digit_char((y \div 10) % 10), digit_char(y % 10), "-",
         digit_char(m \div 10), digit_char(m % 10), "-",
         digit_char(d \div 10), digit_char(d % 10) >>

normalize_posted_date(date_str) ==
  IF date_str = None \/ date_str = <<>> THEN None
  ELSE
    LET s         == str_strip(date_str)
        date_part == split_first(s)
        parsed    == to_datetime(s)
    IN  IF is_iso_date(s) THEN s
        ELSE IF " " \in Range(s) /\ is_iso_date(date_part) THEN date_part
        ELSE IF parsed # NaT THEN strftime(parsed)
        ELSE None

----------------------------------------------------------------------------
(* Table opportunities *)

\* A row of the table is a record of these columns; its id (INTEGER PRIMARY
\* KEY AUTOINCREMENT) is its place in the sequence.

\* SELECT id FROM opportunities WHERE NoticeId = ?, then fetchone(): whether
\* a row came back.
select_existing(table, notice_id) ==
  \E i \in DOMAIN table : table[i].NoticeId = notice_id

\* An INSERT into a table without the UNIQUE constraint.
insert_unconstrained(table, record) ==
  [table |-> Append(table, record), rowcount |-> 1]

\* INSERT OR IGNORE under NoticeId TEXT UNIQUE NOT NULL: a row that breaks
\* the constraint is ignored (rowcount 0), any other is added (rowcount 1).
insert_or_ignore(table, record) ==
  IF \/ record.NoticeId = None
     \/ \E i \in DOMAIN table : table[i].NoticeId = record.NoticeId
  THEN [table |-> table, rowcount |-> 0]
  ELSE [table |-> Append(table, record), rowcount |-> 1]

----------------------------------------------------------------------------
(* GlobalDatabaseManager.insert_or_update_batch *)

\* GlobalDatabaseManager.__init__
GlobalDatabaseManager(country_manager) == [country_manager |-> country_manager]

\* str(x) of a cell: NaN prints as 'nan'.
py_str(x) == IF x = None THEN <<"n","a","n">> ELSE x

invalid_notice_ids == { <<"n","a","n">>, <<"N","o","n","e">>, <<>> }

\* The record the loop body builds for a row (columns and values).  Of the
\* columns copied from the row as they are, Title and PostedDate stand for
\* all eleven.
new_record(self, row, notice_id, iso3) ==
  LET region_info == get_region(self.country_manager, iso3)
  IN  [ NoticeId              |-> notice_id,
        PopCountry_ISO3       |-> iso3,
        Geographic_Region     |-> IF region_info # None THEN region_info[1] ELSE None,
        Geographic_SubRegion  |-> IF region_info # None THEN region_info[2] ELSE None,
        PostedDate_normalized |-> normalize_posted_date(row.PostedDate),
        PopCountry            |-> standardize_country(self.country_manager, row.PopCountry),
        Title                 |-> row.Title,
        PostedDate            |-> row.PostedDate ]

\* What became of a row: the counter the loop body added to, or that the
\* body raised.  "insert_error" is a skip with its error logged.
Outcomes == {"inserted", "skipped", "insert_error", "raised"}

count(st, outcome) == [st EXCEPT !.outcomes = Append(@, outcome)]
\* A skip that forgets its counter.
skip_uncounted(st) == count(st, "skipped")
skip(st) == count([st EXCEPT !.skipped = @ + 1], "skipped")

\* Variants of the loop body, each one design the code did not take.
\* (1) No lookup and a plain INSERT into a table without the UNIQUE
\*     constraint: every valid row is added.
process_row_blind(self, st, row, raising) ==
  LET notice_id == str_strip(py_str(row.NoticeId))
      iso3      == identify_country(self.country_manager, row.PopCountry)
  IN  IF notice_id \in invalid_notice_ids THEN skip(st)
      ELSE IF iso3 = None THEN skip(st)
      ELSE IF "INSERT" \in raising
        THEN count([st EXCEPT !.skipped = @ + 1], "insert_error")
        ELSE count([st EXCEPT !.table = Append(@, new_record(self, row, notice_id, iso3)),
                              !.inserted = @ + 1], "inserted")

\* (2) No check of the country: a row is inserted whatever identify_country
\*     makes of its PopCountry.
process_row_any_country(self, st, row, raising) ==
  LET notice_id == str_strip(py_str(row.NoticeId))
      iso3      == identify_country(self.country_manager, row.PopCountry)
      done      == insert_or_ignore(st.table, new_record(self, row, notice_id, iso3))
  IN  IF notice_id \in invalid_notice_ids THEN skip(st)
      ELSE IF "SELECT" \in raising THEN count([st EXCEPT !.raised = TRUE], "raised")
      ELSE IF select_existing(st.table, notice_id) THEN skip(st)
      ELSE IF "INSERT" \in raising
        THEN count([st EXCEPT !.skipped = @ + 1], "insert_error")
      ELSE IF done.rowcount > 0
        THEN count([st EXCEPT !.table = done.table, !.inserted = @ + 1], "inserted")
        ELSE skip(st)

\* (3) An upsert: a row whose NoticeId is stored overwrites the record.
process_row_update(self, st, row, raising) ==
  LET notice_id == str_strip(py_str(row.NoticeId))
      iso3      == identify_country(self.country_manager, row.PopCountry)
      record    == new_record(self, row, notice_id, iso3)
      done      == insert_or_ignore(st.table, record)
  IN  IF notice_id \in invalid_notice_ids THEN skip(st)
      ELSE IF iso3 = None THEN skip(st)
      ELSE IF "SELECT" \in raising THEN count([st EXCEPT !.raised = TRUE], "raised")
      ELSE IF select_existing(st.table, notice_id)
        THEN count([st EXCEPT !.table = [i \in DOMAIN @ |->
                                           IF @[i].NoticeId = notice_id THEN record ELSE @[i]],
                              !.updated = @ + 1], "updated")
      ELSE IF "INSERT" \in raising
        THEN count([st EXCEPT !.skipped = @ + 1], "insert_error")
      ELSE IF done.rowcount > 0
        THEN count([st EXCEPT !.table = done.table, !.inserted = @ + 1], "inserted")
        ELSE skip(st)

\* (4) INSERT OR REPLACE without a lookup: the stored record of the same
\*     NoticeId is deleted and the row's record added.
process_row_replace(self, st, row, raising) ==
  LET notice_id == str_strip(py_str(row.NoticeId))
      iso3      == identify_country(self.country_manager, row.PopCountry)
      record    == new_record(self, row, notice_id, iso3)
      others(r) == r.NoticeId # notice_id
  IN  IF notice_id \in invalid_notice_ids THEN skip(st)
      ELSE IF iso3 = None THEN skip(st)
      ELSE IF "INSERT" \in raising
        THEN count([st EXCEPT !.skipped = @ + 1], "insert_error")
        ELSE count([st EXCEPT !.table = Append(SelectSeq(@, others), record),
                              !.inserted = @ + 1], "inserted")

\* (5) No try/except around the INSERT: its exception leaves the loop.
process_row_uncaught(self, st, row, raising) ==
  LET notice_id == str_strip(py_str(row.NoticeId))
      iso3      == identify_country(self.country_manager, row.PopCountry)
      done      == insert_or_ignore(st.table, new_record(self, row, notice_id, iso3))
  IN  IF notice_id \in invalid_notice_ids THEN skip(st)
      ELSE IF iso3 = None THEN skip(st)
      ELSE IF "SELECT" \in raising THEN count([st EXCEPT !.raised = TRUE], "raised")
      ELSE IF select_existing(st.table, notice_id) THEN skip(st)
      ELSE IF "INSERT" \in raising THEN count([st EXCEPT !.raised = TRUE], "raised")
      ELSE IF done.rowcount > 0
        THEN count([st EXCEPT !.table = done.table, !.inserted = @ + 1], "inserted")
        ELSE skip(st)

\* One pass of the loop body.  st holds the table as the open transaction
\* sees it, the three counters, whether an exception left the loop and, row
\* by row, the outcome; raising is the set of statements ("SELECT",
\* "INSERT") that raise when this row executes them.
process_row(self, st, row, raising) ==
  LET notice_id == str_strip(py_str(row.NoticeId))
      iso3      == identify_country(self.country_manager, row.PopCountry)
      done      == insert_or_ignore(st.table, new_record(self, row, notice_id, iso3))
  IN  IF notice_id \in invalid_notice_ids THEN skip(st)
      ELSE IF iso3 = None THEN skip(st)
      ELSE IF "SELECT" \in raising THEN count([st EXCEPT !.raised = TRUE], "raised")
      ELSE IF select_existing(st.table, notice_id) THEN skip(st)
      ELSE IF "INSERT" \in raising
        THEN count([st EXCEPT !.skipped = @ + 1], "insert_error")
      ELSE IF done.rowcount > 0
        THEN count([st EXCEPT !.table = done.table, !.inserted = @ + 1], "inserted")
        ELSE skip(st)

\* for _, row in df.iterrows(): the loop, left at the first row that raises.
\* raising is the set of <<row index, statement>> that raise when executed.
RECURSIVE iterrows(_, _, _, _, _)
iterrows(self, st, rows, i, raising) ==
  IF i > Len(rows) \/ st.raised THEN st
  ELSE iterrows(self,
                process_row(self, st, rows[i], {f[2] : f \in {g \in raising : g[1] = i}}),
                rows, i + 1, raising)

Raised == <<"raised">>

\* A call whose connection commits what the loop inserted before the
\* exception left it.
insert_or_update_batch_no_rollback(self, table, rows, raising) ==
  LET st0 == [table |-> table, inserted |-> 0, updated |-> 0, skipped |-> 0,
              raised |-> FALSE, outcomes |-> <<>>]
      st  == iterrows(self, st0, rows, 1, raising)
  IN  IF rows = <<>>
        THEN [table |-> table, returned |-> <<0, 0, 0>>, outcomes |-> <<>>]
      ELSE IF st.raised
        THEN [table |-> st.table, returned |-> Raised, outcomes |-> st.outcomes]
        ELSE [table |-> st.table, returned |-> <<st.inserted, st.updated, st.skipped>>,
              outcomes |-> st.outcomes]

\* The call: the table it leaves committed, what it returns (the three
\* counters, or Raised when the exception reaches the caller) and the
\* outcome of each row it processed.  get_connection commits when the loop
\* ends and rolls back when an exception leaves it.
insert_or_update_batch(self, table, rows, raising) ==
  LET st0 == [table |-> table, inserted |-> 0, updated |-> 0, skipped |-> 0,
              raised |-> FALSE, outcomes |-> <<>>]
      st  == iterrows(self, st0, rows, 1, raising)
  IN  IF rows = <<>>
        THEN [table |-> table, returned |-> <<0, 0, 0>>, outcomes |-> <<>>]
      ELSE IF st.raised
        THEN [table |-> table, returned |-> Raised, outcomes |-> st.outcomes]
        ELSE [table |-> st.table, returned |-> <<st.inserted, st.updated, st.skipped>>,
              outcomes |-> st.outcomes]

----------------------------------------------------------------------------
(* The chunks the model feeds and the faults it injects *)

MaxChunk == 3
MaxFaults == 1

N1 == <<"N","1">>
N2 == <<"N","2">>
T1 == <<"T","1">>
T2 == <<"T","2">>

Kenya_N1 ==
  [NoticeId |-> N1, PopCountry |-> <<"K","e","n","y","a">>, Title |-> T1,
   PostedDate |-> <<"2","0","2","4","-","0","3","-","1","5"," ","1","0","-","3","0","-","0","0">>]
\* the same notice id, padded, with another country, title and date
UK_N1 ==
  [NoticeId |-> <<" ","N","1"," ">>, PopCountry |-> <<"u","k">>, Title |-> T2,
   PostedDate |-> <<"n","o","t","-","a","-","d","a","t","e">>]
\* a place that is no country of the taxonomy
Nebraska_N2 ==
  [NoticeId |-> N2, PopCountry |-> <<"N","e","b","r","a","s","k","a">>, Title |-> T1,
   PostedDate |-> <<"2","0","2","4","-","0","3","-","1","5">>]
\* the second notice id, its country annotated with the code, no title
Kenya_N2 ==
  [NoticeId |-> N2, PopCountry |-> <<"K","E","N","Y","A"," ","(","K","E","N",")">>,
   Title |-> None, PostedDate |-> <<"0","3","/","1","5","/","2","0","2","4">>]
\* an empty, a blank and a missing (NaN) notice id
USA_empty   == [NoticeId |-> <<>>, PopCountry |-> <<"U","S","A">>, Title |-> T1, PostedDate |-> None]
Kenya_blank == [NoticeId |-> <<" ">>, PopCountry |-> <<"K","e","n","y","a">>, Title |-> T2, PostedDate |-> None]
USA_nan     == [NoticeId |-> None, PopCountry |-> <<"U","S","A">>, Title |-> T2, PostedDate |-> None]

Rows == {Kenya_N1, UK_N1, Nebraska_N2, Kenya_N2, USA_empty, Kenya_blank, USA_nan}

Chunks == UNION {[1..n -> Rows] : n \in 0..MaxChunk}

\* The statements a call on a chunk can come to execute, as <<row index,
\* statement>>: those of the rows that pass the two checks before the SELECT.
FaultPoints(self, rows) ==
  {i \in 1..Len(rows) :
     /\ str_strip(py_str(rows[i].NoticeId)) \notin invalid_notice_ids
     /\ identify_country(self.country_manager, rows[i].PopCountry) # None}
  \X {"SELECT", "INSERT"}

----------------------------------------------------------------------------
(* The state machine *)

\* No bootstrap runs in the process.
no_run == [pc |-> "none"]

\* No call has been made on the country manager yet.
no_call == [call |-> "none", arg |-> None, returned |-> None]

\* The one database manager of the process, over the one country manager.
db_manager == GlobalDatabaseManager(GlobalCountryManager)

Init ==
  /\ opportunities = <<>>
  /\ df = None
  /\ phase = "idle"
  /\ before = <<>>
  /\ log = <<>>
  /\ faults = <<>>
  /\ returned = None
  /\ manager = GlobalCountryManager
  /\ module = "global_sam_utils"
  /\ loaded = init_steps(module)
  /\ pop_country = None
  /\ posted_date = None
  /\ result = no_call
  /\ workers = <<>>
  /\ writer = 0
  /\ batches = <<>>
  /\ replica = <<>>
  /\ bootstrap = None
  /\ progress_file = None
  /\ run = no_run

\* initialize_database: DROP TABLE IF EXISTS, then CREATE TABLE.
InitializeDatabase ==
  /\ phase = "idle"
  /\ opportunities' = <<>>
  /\ UNCHANGED <<df, phase, before, log, faults, returned>>
  /\ UNCHANGED outside_ingestion

\* The caller reads the next chunk of its file.
ReadChunk ==
  /\ phase = "idle"
  /\ \E chunk \in Chunks : df' = chunk
  /\ phase' = "read"
  /\ before' = opportunities
  /\ UNCHANGED <<opportunities, log, faults, returned>>
  /\ UNCHANGED outside_ingestion

\* The number of statements that raised in the calls made on the chunk.
RECURSIVE raised_so_far(_)
raised_so_far(fs) ==
  IF fs = <<>> THEN 0 ELSE Cardinality(Head(fs)) + raised_so_far(Tail(fs))

\* The statements in raising are executed by a call with these outcomes:
\* their rows were processed, each ended on its statement (the error logged
\* or the exception out of the loop), and no row has two of them.
executed(raising, outcomes) ==
  /\ \A f \in raising :
       f[1] <= Len(outcomes) /\ outcomes[f[1]] \in {"insert_error", "raised"}
  /\ \A f, g \in raising : f[1] = g[1] => f = g

\* insert_or_update_batch(df): the first call on the chunk, or its replay.
\* Any statement it executes may raise, but while a chunk is worked on at
\* most MaxFaults statements do.
InsertOrUpdateBatch ==
  /\ phase \in {"read", "ingested"}
  /\ \E raising \in SUBSET FaultPoints(db_manager, df) :
       /\ Cardinality(raising) + raised_so_far(faults) <= MaxFaults
       /\ LET r == insert_or_update_batch(db_manager, opportunities, df, raising)
          IN  /\ executed(raising, r.outcomes)
              /\ opportunities' = r.table
              /\ returned' = r.returned
              /\ log' = Append(log, r.outcomes)
              /\ faults' = Append(faults, raising)
  /\ phase' = IF phase = "read" THEN "ingested" ELSE "replayed"
  /\ UNCHANGED <<df, before>>
  /\ UNCHANGED outside_ingestion

\* The caller is done with the chunk.
DropChunk ==
  /\ phase \in {"ingested", "replayed"}
  /\ df' = None
  /\ phase' = "idle"
  /\ before' = <<>>
  /\ log' = <<>>
  /\ faults' = <<>>
  /\ returned' = None
  /\ UNCHANGED opportunities
  /\ UNCHANGED outside_ingestion

Next == InitializeDatabase \/ ReadChunk \/ InsertOrUpdateBatch \/ DropChunk

Spec == Init /\ [][Next]_vars

----------------------------------------------------------------------------
(* Vocabulary of the properties *)

country_manager == db_manager.country_manager

\* The NoticeId the loop body reads from a row.
notice_id_of(row) == str_strip(py_str(row.NoticeId))

resolves(row) == identify_country(country_manager, row.PopCountry) # None

\* The record insert_or_update_batch builds from a row.
record_of(row) ==
  new_record(db_manager, row, notice_id_of(row),
             identify_country(country_manager, row.PopCountry))

stored(table, notice_id) == \E r \in DOMAIN table : table[r].NoticeId = notice_id

is_prefix(s, t) == Len(s) <= Len(t) /\ SubSeq(t, 1, Len(s)) = s

\* The rows of a call's outcomes that have the given outcome.
rows_with(outcomes, outcome) == {i \in DOMAIN outcomes : outcomes[i] = outcome}

\* The rows at which the given statement raised.
rows_raising(raised, statement) == {f[1] : f \in {g \in raised : g[2] = statement}}

\* A step is a call of insert_or_update_batch; these are its outcomes and
\* the statements that raised in it.
IsCall == Len(log') = Len(log) + 1
call_outcomes == log'[Len(log')]
call_faults == faults'[Len(faults')]

\* A NoticeId cell that is missing (NaN) or holds nothing but whitespace.
missing_or_empty(cell) == cell = None \/ \A i \in DOMAIN cell : cell[i] \in whitespace

----------------------------------------------------------------------------
(* C1 *)

\* C1: after any sequence of insert_or_update_batch calls the table holds at
\* most one record per NoticeId, and a row whose NoticeId was stored when
\* the chunk was read is a no-op in every call on the chunk: it is counted
\* as skipped (unless the lookup itself raised and the call was abandoned)
\* and the records stored then are still there, as they were.
C1_UniqueNoticeId ==
  /\ \A i, j \in DOMAIN opportunities :
       opportunities[i].NoticeId = opportunities[j].NoticeId => i = j
  /\ phase # "idle" =>
       /\ is_prefix(before, opportunities)
       /\ \A k \in DOMAIN log : \A i \in DOMAIN log[k] :
            stored(before, notice_id_of(df[i])) /\ log[k][i] # "raised"
              => log[k][i] = "skipped"

\* A call went over a row whose NoticeId was stored under another title and
\* over a row that it inserted.
C1_Witness ==
  /\ phase = "ingested"
  /\ Len(opportunities) = 2
  /\ \E i \in DOMAIN df : \E r \in DOMAIN before :
       /\ before[r].NoticeId = notice_id_of(df[i])
       /\ before[r].Title # df[i].Title
       /\ resolves(df[i])
       /\ log[1][i] = "skipped"
  /\ \E i \in DOMAIN log[1] : log[1][i] = "inserted"

----------------------------------------------------------------------------
(* C2 *)

\* C2, as it is stated: in every call, a row whose PopCountry is
\* unrecognized is counted as skipped and its NoticeId, if it was not
\* stored before the call, is not stored after it.
C2_AsStated ==
  [][IsCall /\ returned' # Raised =>
       \A i \in DOMAIN df :
         ~resolves(df[i]) =>
           /\ call_outcomes[i] = "skipped"
           /\ ~stored(opportunities, notice_id_of(df[i]))
                => ~stored(opportunities', notice_id_of(df[i]))]_vars

\* C2, amended: in every call, a row whose PopCountry is unrecognized is
\* counted as skipped, every row the call inserts is one whose PopCountry
\* identify_country resolves, and every record the call adds is the record
\* of such a row, with the code identify_country gave; so the NoticeId of
\* an unrecognized row is added only by another row of the batch that has
\* the same NoticeId and a recognized PopCountry.
C2_OnlyResolved ==
  [][IsCall =>
       /\ \A i \in DOMAIN call_outcomes :
            /\ ~resolves(df[i]) => call_outcomes[i] = "skipped"
            /\ call_outcomes[i] = "inserted" => resolves(df[i])
       /\ \A r \in DOMAIN opportunities' :
            r > Len(opportunities) =>
              \E i \in DOMAIN call_outcomes :
                /\ call_outcomes[i] = "inserted"
                /\ opportunities'[r] = record_of(df[i])
                /\ opportunities'[r].PopCountry_ISO3 # None]_vars

\* A call inserted a row and skipped an unrecognized row with a valid
\* NoticeId, which is not stored.
C2_Witness ==
  /\ phase = "ingested"
  /\ Len(opportunities) > Len(before)
  /\ \E i \in DOMAIN df :
       /\ ~resolves(df[i])
       /\ notice_id_of(df[i]) \notin invalid_notice_ids
       /\ log[1][i] = "skipped"
       /\ ~stored(opportunities, notice_id_of(df[i]))

----------------------------------------------------------------------------
(* C3 *)

\* C3: every stored record has a canonical code, a region and a sub-region,
\* none of them null, and the (region, sub-region) stored is the pair
\* get_region gives for the stored code.
C3_RegionOfStored ==
  \A r \in DOMAIN opportunities :
    /\ opportunities[r].PopCountry_ISO3 # None
    /\ opportunities[r].PopCountry_ISO3 \in country_manager.all_iso3_codes
    /\ opportunities[r].Geographic_Region # None
    /\ opportunities[r].Geographic_SubRegion # None
    /\ get_region(country_manager, opportunities[r].PopCountry_ISO3)
         = <<opportunities[r].Geographic_Region, opportunities[r].Geographic_SubRegion>>

\* Two records of two regions are stored.
C3_Witness ==
  /\ Len(opportunities) = 2
  /\ opportunities[1].Geographic_Region = RegionName.AFRICA
  /\ opportunities[1].Geographic_SubRegion = SubRegionName.Eastern_Africa
  /\ opportunities[2].Geographic_Region = RegionName.EUROPE

----------------------------------------------------------------------------
(* C4 *)

\* C4: no call of insert_or_update_batch changes a stored record: whatever
\* the rows of the batch carry, every record stored before the call is
\* stored after it, field by field the same.
C4_InsertOnly ==
  [][IsCall => is_prefix(opportunities, opportunities')]_vars

\* A call went over a row with a stored NoticeId and another title, country
\* and posted date, and the record is as it was.
C4_Witness ==
  /\ phase = "ingested"
  /\ returned # Raised
  /\ \E i \in DOMAIN df : \E r \in DOMAIN before :
       /\ before[r].NoticeId = notice_id_of(df[i])
       /\ resolves(df[i])
       /\ before[r].Title # record_of(df[i]).Title
       /\ before[r].PopCountry_ISO3 # record_of(df[i]).PopCountry_ISO3
       /\ before[r].PostedDate # record_of(df[i]).PostedDate
       /\ opportunities[r] = before[r]

----------------------------------------------------------------------------
(* C5 *)

\* C5: when a batch has been ingested by a call in which no statement
\* raised, a second call on the same batch that returns leaves the table as
\* the first call left it and returns inserted = 0.
C5_Idempotent ==
  [][/\ phase = "ingested" /\ phase' = "replayed"
     /\ faults[1] = {}
     /\ returned' # Raised
     => /\ opportunities' = opportunities
        /\ returned'[1] = 0]_vars

\* A batch of which the first call inserted rows has been replayed.
C5_Witness ==
  /\ phase = "replayed"
  /\ faults = <<{}, {}>>
  /\ rows_with(log[1], "inserted") # {}
  /\ Len(opportunities) > Len(before)
  /\ returned = <<0, 0, Len(df)>>

----------------------------------------------------------------------------
(* C6 *)

\* C6: in a call in which no statement raises, of two rows of the batch
\* that have the same NoticeId, not stored before the call, a PopCountry
\* that resolves and different payloads, the one processed first (no such
\* row before it) is inserted, the later one is counted as skipped, the
\* record stored is the first row's, and the call returns.
C6_FirstRowWins ==
  phase = "ingested" /\ faults[1] = {} =>
    /\ returned # Raised
    /\ \A i, j \in DOMAIN df :
         /\ i < j
         /\ notice_id_of(df[i]) = notice_id_of(df[j])
         /\ notice_id_of(df[i]) \notin invalid_notice_ids
         /\ ~stored(before, notice_id_of(df[i]))
         /\ resolves(df[i]) /\ resolves(df[j])
         /\ df[i] # df[j]
         /\ \A h \in 1..(i - 1) :
              notice_id_of(df[h]) = notice_id_of(df[i]) => ~resolves(df[h])
         => /\ log[1][i] = "inserted"
            /\ log[1][j] = "skipped"
            /\ \E r \in DOMAIN opportunities : opportunities[r] = record_of(df[i])
            /\ \A r \in DOMAIN opportunities : opportunities[r] # record_of(df[j])

\* A batch with two such rows has been ingested.
C6_Witness ==
  /\ phase = "ingested" /\ faults[1] = {}
  /\ \E i, j \in DOMAIN df :
       /\ i < j
       /\ notice_id_of(df[i]) = notice_id_of(df[j])
       /\ ~stored(before, notice_id_of(df[i]))
       /\ resolves(df[i]) /\ resolves(df[j])
       /\ record_of(df[i]).Title # record_of(df[j]).Title
       /\ log[1][i] = "inserted" /\ log[1][j] = "skipped"
       /\ \E r \in DOMAIN opportunities : opportunities[r] = record_of(df[i])

----------------------------------------------------------------------------
(* C7 *)

\* C7: a row whose NoticeId is missing or empty once trimmed is counted as
\* skipped in every call, whatever its other fields; it raises nothing and
\* logs no error, and no stored record has such a NoticeId.
C7_NoNoticeId ==
  /\ \A r \in DOMAIN opportunities : ~missing_or_empty(opportunities[r].NoticeId)
  /\ \A k \in DOMAIN log : \A i \in DOMAIN log[k] :
       missing_or_empty(df[i].NoticeId) => log[k][i] = "skipped"
  /\ phase \in {"ingested", "replayed"}
     /\ (\A i \in DOMAIN df : missing_or_empty(df[i].NoticeId))
       => returned = <<0, 0, Len(df)>> /\ opportunities = before

\* A batch of a missing, an empty and a blank NoticeId, of two countries,
\* has been ingested.
C7_Witness ==
  /\ phase = "ingested"
  /\ {df[i].NoticeId : i \in DOMAIN df} = {None, <<>>, <<" ">>}
  /\ Cardinality({df[i].PopCountry : i \in DOMAIN df}) = 2
  /\ returned = <<0, 0, 3>>

----------------------------------------------------------------------------
(* C8 *)

ExampleBatch == {Kenya_N1, Nebraska_N2, USA_empty}

\* C8: every call that returns on a batch of n rows returns inserted +
\* skipped = n and updated = 0, and the table has grown by inserted
\* records.  A call in which no statement raises on a batch of the rows
\* Kenya/N1, Nebraska, USA with an empty NoticeId, in any order, the table
\* being empty, returns inserted = 1, skipped = 2 and leaves one record: N1,
\* region AFRICA, sub-region Eastern Africa.
C8_Counts ==
  [][IsCall /\ returned' # Raised =>
       /\ returned'[1] + returned'[3] = Len(df)
       /\ returned'[2] = 0
       /\ Len(opportunities') = Len(opportunities) + returned'[1]
       /\ returned'[1] = Cardinality(rows_with(call_outcomes, "inserted"))
       /\ opportunities = <<>> /\ Len(df) = 3 /\ Range(df) = ExampleBatch
          /\ call_faults = {}
            => /\ returned' = <<1, 0, 2>>
               /\ Len(opportunities') = 1
               /\ opportunities'[1].NoticeId = N1
               /\ opportunities'[1].Geographic_Region = RegionName.AFRICA
               /\ opportunities'[1].Geographic_SubRegion = SubRegionName.Eastern_Africa]_vars

\* The example batch has been ingested into the empty table.
C8_Witness ==
  /\ phase = "ingested"
  /\ before = <<>>
  /\ Len(df) = 3 /\ Range(df) = ExampleBatch
  /\ returned = <<1, 0, 2>>
  /\ Len(opportunities) = 1
  /\ opportunities[1].NoticeId = N1
  /\ opportunities[1].Geographic_SubRegion = SubRegionName.Eastern_Africa

----------------------------------------------------------------------------
(* C9 *)

\* The rows of a batch other than those at the given places.
without(rows, places) ==
  LET kept == SelectSeq([i \in DOMAIN rows |-> i], LAMBDA i : i \notin places)
  IN  SubSeq([k \in DOMAIN kept |-> rows[kept[k]]], 1, Len(kept))

\* C9: a call in which the INSERT of some row raises (and no lookup does)
\* returns; it has processed every row of the batch; the failed row is
\* counted as skipped, its error logged; the rows it inserted, before and
\* after the failed one, are in the table it leaves; and the table and the
\* inserted count are those of a call without failure on the batch without
\* the failed rows.
C9_RowFailureIsolated ==
  [][IsCall /\ rows_raising(call_faults, "INSERT") # {}
            /\ rows_raising(call_faults, "SELECT") = {} =>
       LET failed == rows_raising(call_faults, "INSERT")
           clean  == insert_or_update_batch(db_manager, opportunities, without(df, failed), {})
       IN  /\ returned' # Raised
           /\ Len(call_outcomes) = Len(df)
           /\ \A i \in failed : call_outcomes[i] = "insert_error"
           /\ returned'[3] = Cardinality(rows_with(call_outcomes, "skipped"))
                             + Cardinality(failed)
           /\ returned'[1] + returned'[3] = Len(df)
           /\ \A i \in rows_with(call_outcomes, "inserted") :
                \E r \in DOMAIN opportunities' : opportunities'[r] = record_of(df[i])
           /\ opportunities' = clean.table
           /\ returned'[1] = clean.returned[1]]_vars

\* The INSERT of the second of three rows raised; the first and the third
\* were inserted.
C9_Witness ==
  /\ phase = "ingested"
  /\ faults[1] = {<<2, "INSERT">>}
  /\ log[1] = <<"inserted", "insert_error", "inserted">>
  /\ returned = <<2, 0, 1>>
  /\ Len(opportunities) = Len(before) + 2

----------------------------------------------------------------------------
(* C10 *)

\* C10: when the first call on a batch lost one row to a failed INSERT and
\* the batch is ingested again without failure, the table holds the records
\* that one call without failure would have stored.
C10_Converges ==
  /\ phase = "replayed"
  /\ Cardinality(rows_raising(faults[1], "INSERT")) = 1
  /\ rows_raising(faults[1], "SELECT") = {}
  /\ faults[2] = {}
  => Range(opportunities) = Range(insert_or_update_batch(db_manager, before, df, {}).table)

----------------------------------------------------------------------------
(* The country manager at work *)

\* The texts the model passes to the country manager, beside those it takes
\* from the tables: sentinels, texts with parenthesised groups, short texts,
\* places that are no country, and parts of country names.
Texts ==
  [Empty |-> <<>>,
   Blank |-> <<" "," ">>,
   none_ |-> <<"n","o","n","e">>,
   Null_ |-> <<"N","u","l","l">>,
   n_a |-> <<" ","n","/","a"," ">>,
   unknown_ |-> <<"u","n","k","n","o","w","n">>,
   Unknown_KEN |-> <<"U","N","K","N","O","W","N"," ","(","K","E","N",")">>,
   Kenya_XXX_UGA |-> <<"K","e","n","y","a"," ","(","X","X","X",")"," ","(","U","G","A",")">>,
   XXX_UGA |-> <<"(","X","X","X",")"," ","(","U","G","A",")">>,
   Nairobi_Kenya_KEN |-> <<"(","N","a","i","r","o","b","i",")"," ","K","e","n","y","a"," ","(","K","E","N",")">>,
   Nairobi_Uganda_KEN |-> <<"N","a","i","r","o","b","i",","," ","U","g","a","n","d","a"," ","(","K","E","N",")">>,
   KEN_Uganda |-> <<"(","K","E","N",")"," ","U","g","a","n","d","a">>,
   Uganda_ken |-> <<"U","g","a","n","d","a"," ","(","k","e","n",")">>,
   x_KEN_open |-> <<"x"," ","(","K","E","N">>,
   Kenya_KEN_close |-> <<"K","e","n","y","a","(","K","E","N",")">>,
   Somewhere_KE |-> <<"S","o","m","e","w","h","e","r","e"," ","(","K","E",")">>,
   A_KENY |-> <<"A"," ","(","K","E","N","Y",")">>,
   ke |-> <<"k","e">>,
   XX |-> <<"X","X">>,
   XXX |-> <<"X","X","X">>,
   IRA |-> <<"I","R","A">>,
   AND |-> <<"A","N","D">>,
   Nebraska |-> <<"N","e","b","r","a","s","k","a">>,
   New_Mexico |-> <<"N","e","w"," ","M","e","x","i","c","o">>,
   zzzz |-> <<"z","z","z","z">>,
   Republic_of_Niger |-> <<"R","e","p","u","b","l","i","c"," ","o","f"," ","N","i","g","e","r">>,
   U_S |-> <<"U",".","S",".">>,
   Amer |-> <<"A","m","e","r">>,
   land |-> <<"l","a","n","d">>,
   kenya |-> <<"k","e","n","y","a">>,
   usa_padded |-> <<" ","u","s","a"," ">>,
   gbr |-> <<"g","b","r">>]

\* The PostedDate cells the model passes: dates in the form YYYY-MM-DD (one
\* of them no day of the calendar, one padded), such dates followed by a
\* time, texts no parser takes for a date, dates written MM/DD/YYYY, the
\* empty text, and the missing cell.
Dates ==
  [iso |-> <<"2","0","2","4","-","0","3","-","1","5">>,
   iso_no_day |-> <<"2","0","2","4","-","9","9","-","9","9">>,
   iso_padded |-> <<" ","2","0","2","4","-","0","3","-","1","5"," ">>,
   iso_time |-> <<"2","0","2","4","-","0","3","-","1","5"," ","1","0","-","3","0","-","0","0">>,
   iso_clock |-> <<"2","0","2","4","-","1","2","-","3","1"," ","2","3",":","5","9",":","5","9">>,
   no_day_time |-> <<"2","0","2","4","-","1","3","-","4","5"," ","x">>,
   not_a_date |-> <<"n","o","t","-","a","-","d","a","t","e">>,
   us |-> <<"0","3","/","1","5","/","2","0","2","4">>,
   us_no_day |-> <<"0","2","/","3","0","/","2","0","2","4">>,
   empty |-> <<>>]
PostedDates == {Dates[f] : f \in DOMAIN Dates} \cup {None}

pad(s) == <<" ">> \o s \o <<" ">>
annotated(name, iso3) == name \o <<" ", "(">> \o iso3 \o <<")">>

\* Every text of the model: each country of GEOGRAPHIC_REGIONS by its name
\* (as written, upper-cased, padded, followed by its code in parentheses) and
\* by its code, each alternative name, each ISO2 code, and the texts above.
PopCountries ==
  UNION { {e.name, str_upper(e.name), pad(e.name), annotated(e.name, e.iso3), e.iso3}
          : e \in Range(GEOGRAPHIC_REGIONS) }
    \cup {a[1] : a \in Range(ALTERNATIVE_NAMES)}
    \cup {a[1] : a \in Range(iso2_to_iso3)}
    \cup {Texts[f] : f \in DOMAIN Texts}

\* What a caller of the country manager leaves alone: the chunk a loader holds
\* and what it recorded of its calls.
outside_resolver ==
  <<df, phase, before, log, faults, returned, module, loaded, workers, writer,
   batches, replica, bootstrap, progress_file, run>>

\* A process after construction of its managers, with a text at hand.
ResolverInit ==
  /\ opportunities = <<>>
  /\ df = None
  /\ phase = "idle"
  /\ before = <<>>
  /\ log = <<>>
  /\ faults = <<>>
  /\ returned = None
  /\ manager = GlobalCountryManager
  /\ module = "global_sam_utils"
  /\ loaded = init_steps(module)
  /\ \/ pop_country \in PopCountries /\ posted_date = None
     \/ pop_country \in {Texts.kenya, Texts.Nebraska} /\ posted_date \in PostedDates
  /\ result = no_call
  /\ workers = <<>>
  /\ writer = 0
  /\ batches = <<>>
  /\ replica = <<>>
  /\ bootstrap = None
  /\ progress_file = None
  /\ run = no_run

\* An identify_country that keeps what it found in the name table.
IdentifyCountry_keeping ==
  /\ result' = [call |-> "identify_country", arg |-> pop_country,
                returned |-> identify_country(manager, pop_country)]
  /\ manager' = [manager EXCEPT !.all_countries =
                   IF identify_country(manager, pop_country) = None THEN @
                   ELSE dict_set(@, pop_country, identify_country(manager, pop_country))]
  /\ UNCHANGED <<pop_country, posted_date, opportunities>>
  /\ UNCHANGED outside_resolver

\* manager.identify_country(value), on the text at hand or on the text the
\* last standardize_country returned.
IdentifyCountry ==
  /\ \E value \in {pop_country} \cup
                  (IF result.call = "standardize_country" /\ result.returned # None
                   THEN {result.returned} ELSE {}) :
       result' = [call |-> "identify_country", arg |-> value,
                  returned |-> identify_country(manager, value)]
  /\ UNCHANGED <<manager, pop_country, posted_date, opportunities>>
  /\ UNCHANGED outside_resolver

\* manager.get_region(iso3), on the text at hand or on the code the last
\* identify_country returned.
GetRegion ==
  /\ \E iso3 \in {pop_country} \cup
                 (IF result.call = "identify_country"
                  THEN {result.returned} ELSE {}) :
       result' = [call |-> "get_region", arg |-> iso3,
                  returned |-> get_region(manager, iso3)]
  /\ UNCHANGED <<manager, pop_country, posted_date, opportunities>>
  /\ UNCHANGED outside_resolver

\* manager.standardize_country(pop_country)
StandardizeCountry ==
  /\ result' = [call |-> "standardize_country", arg |-> pop_country,
                returned |-> standardize_country(manager, pop_country)]
  /\ UNCHANGED <<manager, pop_country, posted_date, opportunities>>
  /\ UNCHANGED outside_resolver

\* db_manager.normalize_posted_date(posted_date)
NormalizePostedDate ==
  /\ result' = [call |-> "normalize_posted_date", arg |-> posted_date,
                returned |-> normalize_posted_date(posted_date)]
  /\ UNCHANGED <<manager, pop_country, posted_date, opportunities>>
  /\ UNCHANGED outside_resolver

\* The row of a one-row chunk that carries the text and the date at hand.
row_of(country, date) ==
  [NoticeId |-> N1, PopCountry |-> country, Title |-> T1, PostedDate |-> date]

\* insert_or_update_batch on that chunk, over the manager as it is.
IngestRow ==
  /\ LET r == insert_or_update_batch(GlobalDatabaseManager(manager), opportunities,
                                     <<row_of(pop_country, posted_date)>>, {})
     IN  /\ opportunities' = r.table
         /\ result' = [call |-> "insert_or_update_batch", arg |-> pop_country,
                       returned |-> r.returned]
  /\ UNCHANGED <<manager, pop_country, posted_date>>
  /\ UNCHANGED outside_resolver

ResolverNext ==
  \/ IdentifyCountry
  \/ GetRegion
  \/ StandardizeCountry
  \/ NormalizePostedDate
  \/ IngestRow

ResolverSpec == ResolverInit /\ [][ResolverNext]_vars

\* The codes of the taxonomy.
taxonomy_codes == {e.iso3 : e \in Range(GEOGRAPHIC_REGIONS)}

\* The last call on the country manager was this one.
called(name) == result.call = name

----------------------------------------------------------------------------
(* C11 *)

\* C11: whatever text identify_country is given, it returns (it does not
\* raise) None or a code of the taxonomy, whichever of its steps answered.
C11_ResolverClosure ==
  called("identify_country") =>
    /\ result.returned # Raised
    /\ result.returned = None \/ result.returned \in taxonomy_codes

\* identify_country has answered with a code at each of its steps: the exact
\* code, the name table, the parenthesised code, the ISO2 table, the partial
\* match.  The state reached holds one of them; the others are checked to
\* resolve as well.
C11_Witness ==
  /\ called("identify_country")
  /\ pop_country = Texts.New_Mexico
  /\ result.returned = <<"M","E","X">>
  /\ identify_country(manager, Texts.gbr) = <<"G","B","R">>
  /\ identify_country(manager, Texts.kenya) = <<"K","E","N">>
  /\ identify_country(manager, Texts.Nairobi_Uganda_KEN) = <<"K","E","N">>
  /\ identify_country(manager, Texts.ke) = <<"K","E","N">>

----------------------------------------------------------------------------
(* C12 *)

\* C12: for every country of the taxonomy, identify_country returns its code
\* for its display name as written, for the name in upper case and for the
\* name between blanks.
C12_CaseAndWhitespace ==
  called("identify_country") =>
    \A i \in DOMAIN GEOGRAPHIC_REGIONS :
      LET n == GEOGRAPHIC_REGIONS[i].name
      IN  result.arg \in {n, str_upper(n), pad(n)}
            => result.returned = GEOGRAPHIC_REGIONS[i].iso3

\* identify_country was called on a padded display name with an accent and an
\* apostrophe, and the two other forms of the name resolve alike.
C12_Witness ==
  /\ called("identify_country")
  /\ \E i \in DOMAIN GEOGRAPHIC_REGIONS :
       LET n == GEOGRAPHIC_REGIONS[i].name
       IN  /\ GEOGRAPHIC_REGIONS[i].iso3 = <<"C","I","V">>
           /\ result.arg = pad(n)
           /\ n # str_upper(n)
           /\ result.returned = <<"C","I","V">>
           /\ identify_country(manager, n) = <<"C","I","V">>
           /\ identify_country(manager, str_upper(n)) = <<"C","I","V">>

----------------------------------------------------------------------------
(* C13 *)

\* C13: for every country of the taxonomy, identify_country returns its code
\* for the text 'name (code)' and for the code alone; and for every text that
\* resolves, identify_country of what standardize_country makes of the text
\* is identify_country of the text.
C13_StandardTraceable ==
  called("identify_country") =>
    /\ \A i \in DOMAIN GEOGRAPHIC_REGIONS :
         LET e == GEOGRAPHIC_REGIONS[i]
         IN  result.arg \in {annotated(e.name, e.iso3), e.iso3}
               => result.returned = e.iso3
    /\ LET iso3 == identify_country(manager, pop_country)
       IN  iso3 # None /\ result.arg = standardize_country(manager, pop_country)
             => result.returned = iso3

\* identify_country was called on what standardize_country returned for a
\* text that resolves by partial match only, and that is no form of a name.
C13_Witness ==
  /\ called("identify_country")
  /\ pop_country = Texts.Republic_of_Niger
  /\ result.arg = <<"N","i","g","e","r"," ","(","N","E","R",")">>
  /\ result.arg = standardize_country(manager, pop_country)
  /\ result.returned = <<"N","E","R">>

----------------------------------------------------------------------------
(* GlobalCountryManager.__init__, step by step *)

\* What the construction of the country manager leaves alone.
outside_init ==
  <<opportunities, df, phase, before, log, faults, returned,
    pop_country, posted_date, result, workers, writer,
    batches, replica, bootstrap, progress_file, run>>

\* The empty lookup structures __init__ starts from, in either copy.
InitStart ==
  /\ module \in Modules
  /\ loaded = 0
  /\ manager = [all_countries |-> <<>>, iso3_to_country |-> <<>>,
                iso3_to_region |-> <<>>, subregion_countries |-> <<>>,
                all_iso3_codes |-> {}]
  /\ opportunities = <<>>
  /\ df = None
  /\ phase = "idle"
  /\ before = <<>>
  /\ log = <<>>
  /\ faults = <<>>
  /\ returned = None
  /\ pop_country = None
  /\ posted_date = None
  /\ result = no_call
  /\ workers = <<>>
  /\ writer = 0
  /\ batches = <<>>
  /\ replica = <<>>
  /\ bootstrap = None
  /\ progress_file = None
  /\ run = no_run

\* The body of the loops over GEOGRAPHIC_REGIONS, for the next country.
AddCountry ==
  /\ loaded < Len(class_tables(module).GEOGRAPHIC_REGIONS)
  /\ LET e == class_tables(module).GEOGRAPHIC_REGIONS[loaded + 1]
     IN  manager' = [manager EXCEPT
                       !.all_countries   = dict_set(@, str_upper(e.name), e.iso3),
                       !.iso3_to_country = dict_set(@, e.iso3, e.name),
                       !.iso3_to_region  = dict_set(@, e.iso3, <<e.region, e.subregion>>),
                       !.subregion_countries =
                         dict_set(@, <<e.region, e.subregion>>,
                                  Append(IF dict_has(@, <<e.region, e.subregion>>)
                                         THEN dict_get(@, <<e.region, e.subregion>>)
                                         ELSE <<>>, e.iso3))]
  /\ loaded' = loaded + 1
  /\ UNCHANGED module
  /\ UNCHANGED outside_init

\* The body of the loop over ALTERNATIVE_NAMES, for the next name.
AddAlternativeName ==
  /\ loaded >= Len(class_tables(module).GEOGRAPHIC_REGIONS)
  /\ loaded < init_steps(module) - 1
  /\ LET a == class_tables(module).ALTERNATIVE_NAMES
                [loaded - Len(class_tables(module).GEOGRAPHIC_REGIONS) + 1]
     IN  manager' = [manager EXCEPT
                       !.all_countries = dict_set(@, str_upper(a[1]), a[2])]
  /\ loaded' = loaded + 1
  /\ UNCHANGED module
  /\ UNCHANGED outside_init

\* all_iso3_codes = set(iso3_to_country.keys())
SetCodes ==
  /\ loaded = init_steps(module) - 1
  /\ manager' = [manager EXCEPT !.all_iso3_codes = dict_keys(manager.iso3_to_country)]
  /\ loaded' = loaded + 1
  /\ UNCHANGED module
  /\ UNCHANGED outside_init

InitNext == AddCountry \/ AddAlternativeName \/ SetCodes

InitSpec == InitStart /\ [][InitNext]_vars

\* __init__ has returned.
constructed == loaded = init_steps(module)

----------------------------------------------------------------------------
(* C14 *)

\* C14: in the country manager either copy of the module constructs, each
\* display name of the taxonomy maps to one code, its own; each code maps
\* back to the one display name that carries it, so no two names share a
\* code; and each code has the one region and sub-region it is listed under.
C14_WellFormed ==
  constructed =>
    \A i \in DOMAIN class_tables(module).GEOGRAPHIC_REGIONS :
      LET e == class_tables(module).GEOGRAPHIC_REGIONS[i]
      IN  /\ dict_get(manager.all_countries, str_upper(e.name)) = e.iso3
          /\ dict_get(manager.iso3_to_country, e.iso3) = e.name
          /\ dict_get(manager.iso3_to_region, e.iso3) = <<e.region, e.subregion>>

----------------------------------------------------------------------------
(* C15 *)

\* The alternative name __init__ has loaded last, as <<name, code>>.
last_alias ==
  class_tables(module).ALTERNATIVE_NAMES
    [loaded - Len(class_tables(module).GEOGRAPHIC_REGIONS)]
alias_loaded ==
  /\ loaded > Len(class_tables(module).GEOGRAPHIC_REGIONS)
  /\ loaded < init_steps(module)

\* C15: every alternative name __init__ loads carries a code of the taxonomy;
\* where its key is a display name in upper case it carries that name's code;
\* and after it is loaded every display name still maps to its own code in
\* the combined name table.
C15_AliasesAgree ==
  alias_loaded =>
    \A i \in DOMAIN class_tables(module).GEOGRAPHIC_REGIONS :
      LET e == class_tables(module).GEOGRAPHIC_REGIONS[i]
      IN  /\ dict_has(manager.iso3_to_country, last_alias[2])
          /\ str_upper(last_alias[1]) = str_upper(e.name) => last_alias[2] = e.iso3
          /\ dict_get(manager.all_countries, str_upper(e.name)) = e.iso3

\* __init__ of global_sam_utils has just loaded an alternative name that is
\* also a display name, over the entry the display name made.
C15_Witness ==
  /\ alias_loaded
  /\ module = "global_sam_utils"
  /\ last_alias[1] = <<"N","E","T","H","E","R","L","A","N","D","S">>
  /\ \E i \in DOMAIN GEOGRAPHIC_REGIONS :
       /\ str_upper(GEOGRAPHIC_REGIONS[i].name) = last_alias[1]
       /\ GEOGRAPHIC_REGIONS[i].iso3 = last_alias[2]
  /\ dict_get(manager.all_countries, last_alias[1]) = <<"N","L","D">>
  /\ Len(manager.all_countries) < loaded

----------------------------------------------------------------------------
(* C16 *)

\* C16: a call of identify_country or get_region changes neither the lookup
\* structures nor the table, and returns what the same call returns on the
\* manager as constructed, whatever calls and ingestions came before it; and
\* get_region returns the region and sub-region, never None, for every code
\* of the taxonomy.
C16_NoSideEffects ==
  [][ result'.call \in {"identify_country", "get_region"} =>
        /\ manager' = manager
        /\ opportunities' = opportunities
        /\ result'.call = "identify_country" =>
             result'.returned = identify_country(GlobalCountryManager, result'.arg)
        /\ result'.call = "get_region" =>
             /\ result'.returned = get_region(GlobalCountryManager, result'.arg)
             /\ \A i \in DOMAIN GEOGRAPHIC_REGIONS :
                  result'.arg = GEOGRAPHIC_REGIONS[i].iso3 =>
                    result'.returned = <<GEOGRAPHIC_REGIONS[i].region,
                                         GEOGRAPHIC_REGIONS[i].subregion>> ]_vars

\* After a row was ingested and its text identified, get_region was called
\* on the code and returned its region and sub-region.
C16_Witness ==
  /\ called("get_region")
  /\ Len(opportunities) = 1
  /\ pop_country = Texts.Nairobi_Uganda_KEN
  /\ result.arg = <<"K","E","N">>
  /\ result.returned = <<RegionName.AFRICA, SubRegionName.Eastern_Africa>>
  /\ manager = GlobalCountryManager

----------------------------------------------------------------------------
(* C17 *)

\* A text in the form YYYY-MM-DD.
iso_form(s) ==
  /\ Len(s) = 10
  /\ \A i \in {1, 2, 3, 4, 6, 7, 9, 10} : s[i] \in digits
  /\ s[5] = "-" /\ s[8] = "-"

\* C17: normalize_posted_date returns a text in the form YYYY-MM-DD as it is,
\* returns the date of a text 'YYYY-MM-DD <time>', and returns None for a
\* text in neither form that does not parse as a date; and a row whose
\* country resolves and whose NoticeId is not stored is inserted, with what
\* normalize_posted_date returns for its date, also when that is None.
C17_NormalizedDate ==
  [][ /\ result'.call = "normalize_posted_date" /\ result'.arg # None =>
           LET s == result'.arg
           IN  /\ iso_form(s) => result'.returned = s
               /\ Len(s) > 11 /\ iso_form(SubSeq(s, 1, 10)) /\ s[11] = " "
                    => result'.returned = SubSeq(s, 1, 10)
               /\ s \in {Dates.not_a_date, Dates.us_no_day} => result'.returned = None
      /\ /\ result'.call = "insert_or_update_batch"
         /\ opportunities = <<>>
         /\ pop_country = Texts.kenya
         => /\ result'.returned = <<1, 0, 0>>
            /\ Len(opportunities') = 1
            /\ opportunities'[1].PostedDate = posted_date
            /\ posted_date \in {Dates.iso, Dates.iso_no_day}
                 => opportunities'[1].PostedDate_normalized = posted_date
            /\ posted_date \in {Dates.iso_time, Dates.iso_padded, Dates.us}
                 => opportunities'[1].PostedDate_normalized = Dates.iso
            /\ posted_date \in {Dates.not_a_date, Dates.us_no_day, Dates.empty, None}
                 => opportunities'[1].PostedDate_normalized = None ]_vars

\* The row with the date 'not-a-date' was ingested into the empty table: it
\* is stored with no normalized date; and the date with a time normalizes to
\* its date.
C17_Witness ==
  /\ called("insert_or_update_batch")
  /\ pop_country = Texts.kenya
  /\ posted_date = Dates.not_a_date
  /\ result.returned = <<1, 0, 0>>
  /\ Len(opportunities) = 1
  /\ opportunities[1].PostedDate_normalized = None
  /\ opportunities[1].PopCountry_ISO3 = <<"K","E","N">>
  /\ normalize_posted_date(Dates.iso_time) = Dates.iso

----------------------------------------------------------------------------
(* Two workers on one database *)

\* Each worker runs insert_or_update_batch on its own chunk over its own
\* connection (get_connection: journal_mode=WAL; the sqlite3 module issues
\* BEGIN before the first INSERT).  One connection at a time holds the write
\* lock, from its first INSERT to its commit.  A connection reads the
\* committed table; once its transaction has begun, the table as it was at
\* its first statement since, with its own inserts.

MaxRaceChunk == 2
Workers == {1, 2}
RaceRows == {Kenya_N1, UK_N1, Kenya_N2, Nebraska_N2}
RaceChunks == UNION {[1..n -> RaceRows] : n \in 1..MaxRaceChunk}

\* A worker that has opened its connection and enters the loop.
worker_start(rows) ==
  [rows |-> rows, i |-> 1, pc |-> "loop",
   begun |-> FALSE, reading |-> FALSE, snapshot |-> <<>>, pending |-> <<>>,
   inserted |-> 0, updated |-> 0, skipped |-> 0, outcomes |-> <<>>]

outside_race ==
  <<df, phase, before, log, faults, returned, manager, module, loaded,
    pop_country, posted_date, result,
    batches, replica, bootstrap, progress_file, run>>

RaceInit ==
  /\ opportunities = <<>>
  /\ workers \in [Workers -> {worker_start(rows) : rows \in RaceChunks}]
  /\ writer = 0
  /\ batches = <<>>
  /\ replica = <<>>
  /\ bootstrap = None
  /\ progress_file = None
  /\ run = no_run
  /\ df = None
  /\ phase = "idle"
  /\ before = <<>>
  /\ log = <<>>
  /\ faults = <<>>
  /\ returned = None
  /\ manager = GlobalCountryManager
  /\ module = "global_sam_utils"
  /\ loaded = init_steps(module)
  /\ pop_country = None
  /\ posted_date = None
  /\ result = no_call

\* The table a worker's connection reads.
view(me) == IF me.reading THEN me.snapshot \o me.pending ELSE opportunities

next_row(me) == [me EXCEPT !.i = @ + 1, !.pc = "loop"]

\* The loop body up to the lookup: the two skips, then SELECT and fetchone.
\* In a transaction that has begun the read stays open.
Select(w) ==
  LET me        == workers[w]
      row       == me.rows[me.i]
      notice_id == str_strip(py_str(row.NoticeId))
      iso3      == identify_country(db_manager.country_manager, row.PopCountry)
      selected  == [me EXCEPT !.reading = me.reading \/ me.begun,
                              !.snapshot = IF me.reading THEN me.snapshot
                                           ELSE IF me.begun THEN opportunities
                                           ELSE <<>>]
  IN  /\ me.pc = "loop"
      /\ me.i <= Len(me.rows)
      /\ workers' = [workers EXCEPT ![w] =
           IF notice_id \in invalid_notice_ids THEN next_row(skip(me))
           ELSE IF iso3 = None THEN next_row(skip(me))
           ELSE IF select_existing(view(me), notice_id) THEN next_row(skip(selected))
           ELSE [selected EXCEPT !.pc = "selected"]]
      /\ UNCHANGED <<opportunities, writer>>
      /\ UNCHANGED outside_race

\* INSERT OR IGNORE by a connection that holds the write lock or gets it:
\* the lock is free, and no other connection has committed since this one
\* began to read.
Insert(w) ==
  LET me        == workers[w]
      row       == me.rows[me.i]
      notice_id == str_strip(py_str(row.NoticeId))
      iso3      == identify_country(db_manager.country_manager, row.PopCountry)
      done      == insert_or_ignore(opportunities \o me.pending,
                                    new_record(db_manager, row, notice_id, iso3))
      writing   == [me EXCEPT !.begun = TRUE, !.reading = TRUE,
                              !.snapshot = opportunities]
  IN  /\ me.pc = "selected"
      /\ \/ writer = w
         \/ writer = 0 /\ (me.reading => me.snapshot = opportunities)
      /\ workers' = [workers EXCEPT ![w] =
           IF done.rowcount > 0
           THEN next_row(count([writing EXCEPT
                                  !.pending = Append(@, done.table[Len(done.table)]),
                                  !.inserted = @ + 1], "inserted"))
           ELSE next_row(skip(writing))]
      /\ writer' = w
      /\ UNCHANGED opportunities
      /\ UNCHANGED outside_race

\* INSERT OR IGNORE raises 'database is locked': another connection holds
\* the write lock, or has committed since this one began to read.  The
\* except clause counts the row as skipped.
InsertLocked(w) ==
  LET me == workers[w]
  IN  /\ me.pc = "selected"
      /\ \/ writer \notin {0, w}
         \/ writer = 0 /\ me.reading /\ me.snapshot # opportunities
      /\ workers' = [workers EXCEPT ![w] =
           next_row(count([me EXCEPT !.begun = TRUE, !.skipped = @ + 1],
                          "insert_error"))]
      /\ UNCHANGED <<opportunities, writer>>
      /\ UNCHANGED outside_race

\* conn.commit() after the loop.
Commit(w) ==
  LET me == workers[w]
  IN  /\ me.pc = "loop"
      /\ me.i > Len(me.rows)
      /\ opportunities' = IF writer = w THEN opportunities \o me.pending
                          ELSE opportunities
      /\ writer' = IF writer = w THEN 0 ELSE writer
      /\ workers' = [workers EXCEPT ![w] =
           [me EXCEPT !.pc = "done", !.reading = FALSE, !.snapshot = <<>>,
                      !.pending = <<>>]]
      /\ UNCHANGED outside_race

RaceNext ==
  \E w \in Workers : Select(w) \/ Insert(w) \/ InsertLocked(w) \/ Commit(w)

RaceSpec == RaceInit /\ [][RaceNext]_vars

----------------------------------------------------------------------------
(* C18 *)

\* The notice ids that both workers take to the lookup: each has a row with
\* the id whose country resolves.
RaceResolving == {row \in RaceRows : resolves(row)}
raced ==
  {n \in {notice_id_of(row) : row \in RaceResolving} :
     \A w \in Workers :
       \E k \in DOMAIN workers[w].rows :
         /\ workers[w].rows[k] \in RaceResolving
         /\ notice_id_of(workers[w].rows[k]) = n}

\* The rows, as <<worker, place>>, counted as inserted under a notice id.
inserted_as(n) ==
  {p \in Workers \X (1..MaxRaceChunk) :
     /\ p[2] <= Len(workers[p[1]].outcomes)
     /\ workers[p[1]].outcomes[p[2]] = "inserted"
     /\ notice_id_of(workers[p[1]].rows[p[2]]) = n}

\* C18: however the lookups and inserts of two workers interleave, the table
\* never holds two records of one NoticeId; at most one worker counts a row
\* of a notice id both looked up as inserted; and when both have committed
\* the table holds exactly one record of it.
C18_RaceSafe ==
  workers # <<>> =>
    /\ \A i, j \in DOMAIN opportunities :
         opportunities[i].NoticeId = opportunities[j].NoticeId => i = j
    /\ \A n \in raced :
         /\ Cardinality({p[1] : p \in inserted_as(n)}) <= 1
         /\ (\A w \in Workers : workers[w].pc = "done")
              => Cardinality({i \in DOMAIN opportunities :
                                opportunities[i].NoticeId = n}) = 1

\* Both workers looked N1 up before either inserted it; the second inserted
\* and committed it, the first was refused the lock and skipped the row.
C18_Witness ==
  /\ workers # <<>>
  /\ workers[1].rows = <<Kenya_N1>>
  /\ workers[2].rows = <<UK_N1>>
  /\ workers[1].pc = "done" /\ workers[2].pc = "done"
  /\ workers[1].outcomes = <<"insert_error">>
  /\ workers[2].outcomes = <<"inserted">>
  /\ Len(opportunities) = 1
  /\ opportunities[1].PopCountry_ISO3 = <<"G","B","R">>

----------------------------------------------------------------------------
(* C19 *)

\* The six steps on a text, in their order: whether the step matches and
\* what it answers.  The text is compared in upper case, without the
\* whitespace around it.
step(k, text) ==
  LET t       == str_strip(str_upper(text))
      group   == search_paren_iso(t)
      partial == partial_match(GlobalCountryManager.all_countries, t)
  IN  CASE k = 1 ->
             [hit |-> t \in {<<>>, <<"N","O","N","E">>, <<"N","U","L","L">>,
                             <<"N","/","A">>, <<"U","N","K","N","O","W","N">>},
              out |-> None]
        [] k = 2 ->
             [hit |-> Len(t) = 3 /\ t \in taxonomy_codes,
              out |-> t]
        [] k = 3 ->
             [hit |-> dict_has(GlobalCountryManager.all_countries, t),
              out |-> IF dict_has(GlobalCountryManager.all_countries, t)
                      THEN dict_get(GlobalCountryManager.all_countries, t) ELSE None]
        [] k = 4 ->
             [hit |-> group # None /\ group \in taxonomy_codes,
              out |-> group]
        [] k = 5 ->
             [hit |-> Len(t) = 2 /\ dict_has(iso2_to_iso3, t),
              out |-> IF dict_has(iso2_to_iso3, t) THEN dict_get(iso2_to_iso3, t) ELSE None]
        [] k = 6 ->
             [hit |-> Len(t) > 3 /\ partial # None,
              out |-> partial]
steps(text) == [k \in 1..6 |-> step(k, text)]

\* C19: identify_country answers with the first of its six steps that
\* matches (sentinel, exact code, exact name, parenthesised code, ISO2 code,
\* partial match) and with None when none does; so a sentinel in any case
\* and between blanks is not recognized, and a text with a known code in
\* parentheses resolves to that code though it names another country.
C19_FirstStepWins ==
  called("identify_country") /\ result.arg # None =>
    LET s    == steps(result.arg)
        hits == {k \in DOMAIN s : s[k].hit}
    IN  /\ result.returned = IF hits = {} THEN None ELSE s[Min(hits)].out
        /\ result.arg \in {Texts.Empty, Texts.Blank, Texts.none_, Texts.Null_,
                           Texts.n_a, Texts.unknown_}
             => result.returned = None
        /\ result.arg = Texts.Nairobi_Uganda_KEN => result.returned = <<"K","E","N">>

\* identify_country was called on a text that names Uganda and carries the
\* code of Kenya in parentheses: the fourth step and the sixth both match,
\* with different answers.
C19_Witness ==
  /\ called("identify_country")
  /\ result.arg = Texts.Nairobi_Uganda_KEN
  /\ {k \in 1..6 : steps(result.arg)[k].hit} = {4, 6}
  /\ steps(result.arg)[6].out = <<"U","G","A">>
  /\ result.returned = <<"K","E","N">>

----------------------------------------------------------------------------
(* C20 *)

\* The three-letter tokens that stand in parentheses somewhere in a text.
paren_groups(text) ==
  LET t == str_strip(str_upper(text))
  IN  {SubSeq(t, i + 1, i + 3) : i \in {i \in 1..(Len(t) - 4) :
                                          /\ t[i] = "("
                                          /\ \A j \in 1..3 : t[i + j] \in ascii_uppercase
                                          /\ t[i + 4] = ")"}}

\* C20: a text that is no sentinel, no code and no name, and that holds a
\* known code in parentheses, resolves to such a code, wherever the group
\* stands and whatever other groups precede it.
C20_AnyGroup ==
  /\ called("identify_country")
  /\ result.arg # None
  /\ \A k \in 1..3 : ~steps(result.arg)[k].hit
  /\ paren_groups(result.arg) \cap taxonomy_codes # {}
  => result.returned \in paren_groups(result.arg) \cap taxonomy_codes

----------------------------------------------------------------------------
(* C21 *)

\* The combined table of names in the order the fallback goes through it:
\* the display names in the order of the taxonomy, then the alternative names
\* that are no display name, each in upper case with its code.
display_names ==
  SubSeq([i \in DOMAIN GEOGRAPHIC_REGIONS |->
            <<str_upper(GEOGRAPHIC_REGIONS[i].name), GEOGRAPHIC_REGIONS[i].iso3>>],
         1, Len(GEOGRAPHIC_REGIONS))
new_alternative(a) ==
  \A i \in DOMAIN GEOGRAPHIC_REGIONS : str_upper(GEOGRAPHIC_REGIONS[i].name) # str_upper(a[1])
new_alternatives == SelectSeq(ALTERNATIVE_NAMES, new_alternative)
combined_names ==
  display_names \o SubSeq([i \in DOMAIN new_alternatives |->
                             <<str_upper(new_alternatives[i][1]), new_alternatives[i][2]>>],
                          1, Len(new_alternatives))

\* The places of the combined table whose name is inside the text or holds it.
fuzzy_hits(text) ==
  LET t == str_strip(str_upper(text))
  IN  {i \in DOMAIN combined_names :
         \/ str_contains(t, combined_names[i][1])
         \/ str_contains(combined_names[i][1], t)}

\* C21: on a text that none of the first five steps matches, identify_country
\* answers None when the text, in upper case and stripped, has three
\* characters or fewer or when no name of the combined table is inside it or
\* holds it, and otherwise the code of the first such name in the order of the
\* table; and a call on the text of the call before it returns the same.
C21_FuzzyFallback ==
  [][ result'.call = "identify_country" /\ result'.arg # None =>
        LET hits == fuzzy_hits(result'.arg)
        IN  /\ (\A k \in 1..5 : ~step(k, result'.arg).hit) =>
                 result'.returned =
                   IF Len(str_strip(str_upper(result'.arg))) > 3 /\ hits # {}
                   THEN combined_names[Min(hits)][2]
                   ELSE None
            /\ result.call = "identify_country" /\ result.arg = result'.arg =>
                 result'.returned = result.returned ]_vars

\* identify_country was called on 'land', which is no name and is part
\* of several: it returned the code of Thailand, the first of them in the
\* table, though names further down hold the text too.
C21_Witness ==
  /\ called("identify_country")
  /\ result.arg = Texts.land
  /\ pop_country = Texts.land
  /\ \A k \in 1..5 : ~steps(result.arg)[k].hit
  /\ Cardinality(fuzzy_hits(result.arg)) > 1
  /\ combined_names[Min(fuzzy_hits(result.arg))][1] = <<"T","H","A","I","L","A","N","D">>
  /\ result.returned = <<"T","H","A">>

----------------------------------------------------------------------------
(* The store under ingestion and optimize_database *)

\* PostedDate cells that are dates to no parser and yet have the outline of
\* one: a letter in the month, a letter in the day before a time, letters
\* throughout; and a date that ends its line inside the cell, before a time.
OddDates ==
  [letter_month |-> <<"2","0","2","4","-","0","X","-","1","5">>,
   letter_day_time |-> <<"2","0","2","4","-","0","3","-","1","x"," ","1","0","-","3","0","-","0","0">>,
   letters |-> <<"a","b","c","d","-","e","f","-","g","h">>,
   iso_newline_time |-> <<"2","0","2","4","-","0","3","-","1","5","\n"," ","1","0",":","3","0">>]
StoreDates ==
  {Dates.iso, Dates.iso_time, Dates.not_a_date, Dates.us, None}
    \cup {OddDates[f] : f \in DOMAIN OddDates}

\* PostedDate LIKE '____-__-__ __-__-__' and PostedDate LIKE '____-__-__':
\* _ stands for any one character.
like_date_time(s) ==
  /\ Len(s) = 19
  /\ s[5] = "-" /\ s[8] = "-" /\ s[11] = " " /\ s[14] = "-" /\ s[17] = "-"
like_date(s) ==
  /\ Len(s) = 10
  /\ s[5] = "-" /\ s[8] = "-"

\* The UPDATE of optimize_database: a record without a normalized date and
\* with a PostedDate takes the first ten characters of a PostedDate like a
\* date and time, the whole of one like a date, and otherwise stays.
optimize_database(table) ==
  SubSeq([i \in DOMAIN table |->
            IF table[i].PostedDate_normalized = None /\ table[i].PostedDate # None
            THEN [table[i] EXCEPT !.PostedDate_normalized =
                    IF like_date_time(table[i].PostedDate)
                      THEN SubSeq(table[i].PostedDate, 1, 10)
                    ELSE IF like_date(table[i].PostedDate)
                      THEN table[i].PostedDate
                    ELSE @]
            ELSE table[i]],
         1, Len(table))

outside_store ==
  <<df, phase, before, log, faults, returned, manager, module, loaded,
    pop_country, workers, writer,
    batches, replica, bootstrap, progress_file, run>>

\* A process after construction of its managers, over the empty table.
StoreInit ==
  /\ opportunities = <<>>
  /\ df = None
  /\ phase = "idle"
  /\ before = <<>>
  /\ log = <<>>
  /\ faults = <<>>
  /\ returned = None
  /\ manager = GlobalCountryManager
  /\ module = "global_sam_utils"
  /\ loaded = init_steps(module)
  /\ pop_country = Texts.kenya
  /\ posted_date = None
  /\ result = no_call
  /\ workers = <<>>
  /\ writer = 0
  /\ batches = <<>>
  /\ replica = <<>>
  /\ bootstrap = None
  /\ progress_file = None
  /\ run = no_run

\* insert_or_update_batch on a chunk of one row, of either notice id and any
\* of the dates.
IngestDated ==
  /\ \E notice_id \in {N1, N2}, date \in StoreDates :
       LET row == [NoticeId |-> notice_id, PopCountry |-> pop_country,
                   Title |-> T1, PostedDate |-> date]
           r   == insert_or_update_batch(GlobalDatabaseManager(manager), opportunities,
                                         <<row>>, {})
       IN  /\ opportunities' = r.table
           /\ result' = [call |-> "insert_or_update_batch", arg |-> notice_id,
                         returned |-> r.returned]
  /\ UNCHANGED posted_date
  /\ UNCHANGED outside_store

\* GlobalHistoricalBootstrap.optimize_database
OptimizeDatabase ==
  /\ opportunities' = optimize_database(opportunities)
  /\ result' = [call |-> "optimize_database", arg |-> None, returned |-> None]
  /\ UNCHANGED posted_date
  /\ UNCHANGED outside_store

StoreNext == IngestDated \/ OptimizeDatabase

StoreSpec == StoreInit /\ [][StoreNext]_vars

----------------------------------------------------------------------------
(* C22 *)

\* C22: the normalized posted date of every record of the table is None or a
\* text of ten characters, digits but for the hyphens after the year and
\* after the month.
C22_DateForm ==
  \A i \in DOMAIN opportunities :
    LET d == opportunities[i].PostedDate_normalized
    IN  \/ d = None
        \/ /\ Len(d) = 10
           /\ \A k \in {1, 2, 3, 4, 6, 7, 9, 10} :
                d[k] \in {"0","1","2","3","4","5","6","7","8","9"}
           /\ d[5] = "-" /\ d[8] = "-"

----------------------------------------------------------------------------
(* C24 *)

\* C24: a call of insert_or_update_batch in which the lookup of some row
\* raises hands the exception to its caller and leaves the table as it was
\* before the call: no row of the batch is stored, not even those the loop
\* had inserted before the lookup raised, and every record stored by the
\* calls before it is still there.
C24_BatchAtomic ==
  [][IsCall /\ rows_raising(call_faults, "SELECT") # {} =>
       /\ returned' = Raised
       /\ call_outcomes[Len(call_outcomes)] = "raised"
       /\ opportunities' = opportunities
       /\ \A i \in rows_with(call_outcomes, "inserted") :
            ~stored(opportunities, notice_id_of(df[i]))
              /\ ~stored(opportunities', notice_id_of(df[i]))
       /\ is_prefix(before, opportunities')]_vars

\* The table held a record from a batch before; the call on the next batch
\* inserted its first row and was left by the exception of the lookup of its
\* second row: the table holds the one record it held.
C24_Witness ==
  /\ phase = "ingested"
  /\ returned = Raised
  /\ faults[1] = {<<2, "SELECT">>}
  /\ log[1] = <<"inserted", "raised">>
  /\ Len(before) = 1
  /\ opportunities = before
  /\ ~stored(opportunities, notice_id_of(df[1]))

----------------------------------------------------------------------------
(* GlobalBootstrap.filter_for_subregion *)

\* A filter that takes every row whose country resolves, whatever the
\* sub-region.
filtered_rows_anywhere(self, rows, region, subregion) ==
  SelectSeq([i \in 1..Len(rows) |-> i],
            LAMBDA i : identify_country(self, str_strip(py_str(rows[i].PopCountry))) # None)

\* The list filtered_rows the loop of filter_for_subregion builds: the index
\* of every row whose PopCountry, as str(...).strip(), is not empty and
\* resolves to a code of the sub-region.
filtered_rows(self, rows, region, subregion) ==
  LET target_countries == get_countries_by_subregion(self, region, subregion)
      taken(i) ==
        LET pop == str_strip(py_str(rows[i].PopCountry))
            iso3 == identify_country(self, pop)
        IN  pop # <<>> /\ iso3 # None /\ iso3 \in Range(target_countries)
  IN  SelectSeq([i \in 1..Len(rows) |-> i], taken)

\* filter_for_subregion: df.loc[filtered_rows], or an empty frame.
filter_for_subregion(self, rows, region, subregion) ==
  LET idx == filtered_rows(self, rows, region, subregion)
  IN  SubSeq([k \in 1..Len(idx) |-> rows[idx[k]]], 1, Len(idx))

\* The (region, sub-region) pairs in the order run_by_subregion takes them.
Segments ==
  SubSeq([k \in DOMAIN GlobalCountryManager.subregion_countries |->
            GlobalCountryManager.subregion_countries[k][1]],
         1, Len(GlobalCountryManager.subregion_countries))

\* The PopCountry cells of the chunks filtered: the first country of every
\* sub-region by its name, and cells that name a country otherwise, name
\* none, or are missing.
FilterCells ==
  {GlobalCountryManager.iso3_to_country[
     CHOOSE j \in DOMAIN GlobalCountryManager.iso3_to_country :
       GlobalCountryManager.iso3_to_country[j][1]
         = GlobalCountryManager.subregion_countries[k][2][1]][2]
     : k \in DOMAIN GlobalCountryManager.subregion_countries}
  \cup {<<"u","k">>, pad(Texts.kenya), Texts.Nairobi_Uganda_KEN, Texts.ke,
        Texts.Nebraska, Texts.none_, Texts.Blank, None}
\* The cells of the chunks of more than one row.
FewFilterCells ==
  {pad(Texts.kenya), <<"u","k">>, Texts.Nairobi_Uganda_KEN, Texts.Nebraska, Texts.Blank, None}
MaxFilterChunk == 2
FilterChunks ==
  UNION {[1..n -> {[NoticeId |-> N1, PopCountry |-> c, Title |-> T1, PostedDate |-> None]
                     : c \in IF n = 1 THEN FilterCells ELSE FewFilterCells}]
           : n \in 1..MaxFilterChunk}

outside_filter ==
  <<opportunities, phase, before, faults, returned, manager, module, loaded,
    pop_country, posted_date, workers, writer,
    batches, replica, bootstrap, progress_file, run>>

\* A bootstrap with a chunk of its file at hand.
FilterInit ==
  /\ opportunities = <<>>
  /\ df \in FilterChunks
  /\ phase = "read"
  /\ before = <<>>
  /\ log = <<>>
  /\ faults = <<>>
  /\ returned = None
  /\ manager = GlobalCountryManager
  /\ module = "global_sam_utils"
  /\ loaded = init_steps(module)
  /\ pop_country = None
  /\ posted_date = None
  /\ result = no_call
  /\ workers = <<>>
  /\ writer = 0
  /\ batches = <<>>
  /\ replica = <<>>
  /\ bootstrap = None
  /\ progress_file = None
  /\ run = no_run

\* filter_for_subregion(df, region, subregion), for the next sub-region; log
\* keeps the rows each call selected.
FilterForSubregion ==
  /\ Len(log) < Len(Segments)
  /\ LET segment == Segments[Len(log) + 1]
     IN  /\ log' = Append(log, filtered_rows(manager, df, segment[1], segment[2]))
         /\ result' = [call |-> "filter_for_subregion", arg |-> segment,
                       returned |-> filter_for_subregion(manager, df, segment[1], segment[2])]
  /\ UNCHANGED df
  /\ UNCHANGED outside_filter

FilterNext == FilterForSubregion

FilterSpec == FilterInit /\ [][FilterNext]_vars

----------------------------------------------------------------------------
(* C28 *)

\* The calls made so far that selected row i of the chunk.
selected_by(i) == {k \in DOMAIN log : i \in Range(log[k])}

\* C28: the lists of the sub-regions hold every code of the taxonomy between
\* them and no two of them share a code; and of the calls of filter_for_subregion on a chunk, one per
\* sub-region, none selects a row whose country does not resolve, no two
\* select the same row, and once all are made each row whose country
\* resolves was selected by one.
C28_Partition ==
  /\ UNION {Range(get_countries_by_subregion(manager, s[1], s[2])) : s \in Range(Segments)}
       = taxonomy_codes
  /\ \A s, t \in Range(Segments) :
       s # t => Range(get_countries_by_subregion(manager, s[1], s[2]))
                  \cap Range(get_countries_by_subregion(manager, t[1], t[2])) = {}
  /\ \A i \in DOMAIN df :
       /\ Cardinality(selected_by(i)) <= 1
       /\ ~resolves(df[i]) => selected_by(i) = {}
       /\ Len(log) = Len(Segments) /\ resolves(df[i]) => Cardinality(selected_by(i)) = 1
  /\ called("filter_for_subregion") =>
       Len(result.returned) = Len(log[Len(log)])

\* All sub-regions were filtered on a chunk of a row from Kenya and a row
\* from Nebraska: the first was selected once, for Eastern Africa, the second
\* never.
C28_Witness ==
  /\ Len(log) = Len(Segments)
  /\ Len(df) = 2
  /\ df[1].PopCountry = pad(Texts.kenya)
  /\ df[2].PopCountry = Texts.Nebraska
  /\ \E k \in DOMAIN log :
       /\ selected_by(1) = {k}
       /\ Segments[k] = <<RegionName.AFRICA, SubRegionName.Eastern_Africa>>
  /\ selected_by(2) = {}

----------------------------------------------------------------------------
(* Two chunks in either order *)

\* Two databases with the same records take the same two chunks, the first
\* database chunk A and then chunk B, the second B and then A; log keeps the
\* calls made, as <<database, chunk>>.
MaxOrderChunk == 2
OrderRows == {Kenya_N1, UK_N1, Kenya_N2, Nebraska_N2}
OrderChunks == UNION {[1..n -> OrderRows] : n \in 0..MaxOrderChunk}
\* The tables the two databases start from: empty, or what a call on one row
\* left in the empty table.
OrderTables ==
  {insert_or_update_batch(db_manager, <<>>, chunk, {}).table
     : chunk \in {<<>>, <<Kenya_N1>>, <<Kenya_N2>>}}

outside_order ==
  <<df, phase, faults, returned, manager, module, loaded, pop_country,
    posted_date, result, workers, writer, bootstrap, progress_file, run>>

OrderInit ==
  /\ before \in OrderTables
  /\ opportunities = before
  /\ replica = before
  /\ batches \in OrderChunks \X OrderChunks
  /\ log = <<>>
  /\ df = None
  /\ phase = "idle"
  /\ faults = <<>>
  /\ returned = None
  /\ manager = GlobalCountryManager
  /\ module = "global_sam_utils"
  /\ loaded = init_steps(module)
  /\ pop_country = None
  /\ posted_date = None
  /\ result = no_call
  /\ workers = <<>>
  /\ writer = 0
  /\ bootstrap = None
  /\ progress_file = None
  /\ run = no_run

\* The calls a database has had.
calls_on(database) == SelectSeq(log, LAMBDA c : c[1] = database)

\* insert_or_update_batch on the first database: chunk A, then chunk B.
IngestInOrder ==
  /\ Len(calls_on(1)) < 2
  /\ LET chunk == Len(calls_on(1)) + 1
     IN  /\ opportunities' =
               insert_or_update_batch(db_manager, opportunities, batches[chunk], {}).table
         /\ log' = Append(log, <<1, chunk>>)
  /\ UNCHANGED <<before, batches, replica>>
  /\ UNCHANGED outside_order

\* insert_or_update_batch on the second database: chunk B, then chunk A.
IngestInReverse ==
  /\ Len(calls_on(2)) < 2
  /\ LET chunk == 2 - Len(calls_on(2))
     IN  /\ replica' =
               insert_or_update_batch(db_manager, replica, batches[chunk], {}).table
         /\ log' = Append(log, <<2, chunk>>)
  /\ UNCHANGED <<before, batches, opportunities>>
  /\ UNCHANGED outside_order

OrderNext == IngestInOrder \/ IngestInReverse

OrderSpec == OrderInit /\ [][OrderNext]_vars

----------------------------------------------------------------------------
(* C29 *)

\* The notice ids of a table, and the record a table holds of one.
notice_ids(table) == {table[i].NoticeId : i \in DOMAIN table}
record_with(table, n) == table[CHOOSE i \in DOMAIN table : table[i].NoticeId = n]
\* The rows of a chunk that can be stored under notice id n, in chunk order.
rows_for(chunk, n) ==
  SelectSeq(chunk, LAMBDA row : notice_id_of(row) = n /\ resolves(row))

\* C29: once both databases have taken both chunks they hold the same notice
\* ids; each holds them once; and they hold the same record of every notice
\* id, but for a notice id that was not stored at the start and that both
\* chunks carry: of that one each database holds the record of the chunk it
\* took first.
C29_OrderOfBatches ==
  Len(log) = 4 =>
    /\ notice_ids(opportunities) = notice_ids(replica)
    /\ Len(opportunities) = Cardinality(notice_ids(opportunities))
    /\ Len(replica) = Cardinality(notice_ids(replica))
    /\ \A n \in notice_ids(opportunities) :
         IF n \notin notice_ids(before)
            /\ rows_for(batches[1], n) # <<>> /\ rows_for(batches[2], n) # <<>>
         THEN /\ record_with(opportunities, n) = record_of(rows_for(batches[1], n)[1])
              /\ record_with(replica, n) = record_of(rows_for(batches[2], n)[1])
         ELSE record_with(opportunities, n) = record_with(replica, n)

\* Both chunks carry notice id N1, with Kenya in one and the United Kingdom
\* in the other, and only chunk A carries N2: both databases hold N1 and N2,
\* the same record of N2, and of N1 the first Kenya's, the second the United
\* Kingdom's.
C29_Witness ==
  /\ Len(log) = 4
  /\ before = <<>>
  /\ batches = << <<Kenya_N1, Kenya_N2>>, <<UK_N1>> >>
  /\ notice_ids(opportunities) = {N1, N2}
  /\ notice_ids(replica) = {N1, N2}
  /\ record_with(opportunities, N1).PopCountry_ISO3 = <<"K","E","N">>
  /\ record_with(replica, N1).PopCountry_ISO3 = <<"G","B","R">>
  /\ record_with(opportunities, N2) = record_with(replica, N2)

----------------------------------------------------------------------------
(* GlobalBootstrap *)

\* The archives SAM.gov serves, FY<year>_archived_opportunities.csv, as the
\* rows read_csv_with_encoding yields.
France_N3 ==
  [NoticeId |-> <<"N","3">>, PopCountry |-> <<"F","r","a","n","c","e">>, Title |-> T1,
   PostedDate |-> <<"2","0","2","4","-","0","3","-","1","5">>]
France_N4 ==
  [NoticeId |-> <<"N","4">>, PopCountry |-> <<"F","R","A">>, Title |-> T2, PostedDate |-> None]
archive(year) ==
  IF year = 2020 THEN <<Kenya_N1, France_N3, Kenya_N2>>
  ELSE IF year = 2021 THEN <<France_N4, Nebraska_N2, Kenya_N1>>
  ELSE <<>>

\* self.chunk_size: 5000 in the code, here the size that cuts the archives
\* of the model in two.
chunk_size == 2

\* pd.read_csv(..., chunksize=chunksize): the rows in chunks of that size.
read_csv_with_encoding(rows, chunksize) ==
  [k \in 1..((Len(rows) + chunksize - 1) \div chunksize) |->
     SubSeq(rows, (k - 1) * chunksize + 1,
            IF k * chunksize < Len(rows) THEN k * chunksize ELSE Len(rows))]

\* f"{region}_{subregion}_FY{year}"
year_text(year) ==
  << digit_char(year \div 1000), digit_char((year \div 100) % 10),
     digit_char((year \div 10) % 10), digit_char(year % 10) >>
segment_key(year, region, subregion) ==
  region \o <<"_">> \o subregion \o <<"_","F","Y">> \o year_text(year)

\* self.stats as __init__ makes it; total_found and total_inserted stand for
\* the whole dict.
new_stats == [total_found |-> 0, total_inserted |-> 0]

\* An entry of completed_segments is a status with a stats dict: the dict of
\* an entry _save_progress made is self.stats itself (the same object, which
\* changes with it), that of an entry read from the file is its own.
own_entry(status) == [status |-> status, is_self_stats |-> TRUE, stats |-> new_stats]
stats_of(self, entry) == IF entry.is_self_stats THEN self.stats ELSE entry.stats

\* _load_progress: the dict of the file, or {} without a file.
load_progress(file) ==
  IF file = None THEN <<>>
  ELSE SubSeq([i \in DOMAIN file |->
                 <<file[i][1], [status |-> file[i][2].status, is_self_stats |-> FALSE,
                                stats |-> file[i][2].stats]>>], 1, Len(file))

\* json.dump(self.completed_segments, f): every entry with its status and
\* the stats it has at this moment.
dump_progress(self) ==
  SubSeq([i \in DOMAIN self.completed_segments |->
            <<self.completed_segments[i][1],
              [status |-> self.completed_segments[i][2].status,
               stats |-> stats_of(self, self.completed_segments[i][2])]>>],
         1, Len(self.completed_segments))

\* _save_progress(segment_key, status): the instance and the file after it.
save_progress(self, key, status) ==
  LET saved == [self EXCEPT !.completed_segments = dict_set(@, key, own_entry(status))]
  IN  [self |-> saved, file |-> dump_progress(saved)]

\* GlobalBootstrap.__init__
GlobalBootstrap(file) ==
  [completed_segments |-> load_progress(file), stats |-> new_stats]

\* name = value, then the statements that use the name: the value is
\* computed once, as the assignment does.
bind(value, body(_)) == CHOOSE y \in {body(name) : name \in {value}} : TRUE

\* The loop over the chunks of the file in process_year_for_subregion, up to
\* its end or to the chunk whose insert_or_update_batch raises.  st holds the
\* table as committed so far and the two counters; fault is None or the one
\* statement that raises, as <<chunk, row of the filtered chunk, statement>>.
RECURSIVE process_chunks(_, _, _, _, _, _, _)
process_chunks(country_manager_, st, chunks, k, region, subregion, fault) ==
  IF k > Len(chunks) \/ st.raised THEN st
  ELSE
    LET raising == IF fault # None /\ fault[1] = k THEN {<<fault[2], fault[3]>>} ELSE {}
        counted(subregion_data, r) ==
          IF r.returned = Raised
          THEN [st EXCEPT !.found = @ + Len(subregion_data), !.raised = TRUE]
          ELSE [st EXCEPT !.table = r.table,
                          !.found = @ + Len(subregion_data),
                          !.inserted = @ + r.returned[1]]
        body(subregion_data) ==
          IF subregion_data = <<>> THEN st
          ELSE bind(insert_or_update_batch(GlobalDatabaseManager(country_manager_),
                                           st.table, subregion_data, raising),
                    LAMBDA r : counted(subregion_data, r))
    IN  bind(bind(filter_for_subregion(country_manager_, chunks[k], region, subregion),
                  body),
             LAMBDA next :
               process_chunks(country_manager_, next, chunks, k + 1, region, subregion, fault))

\* A process_year_for_subregion that skips every segment that has an entry.
process_year_skip_any_entry(self, country_manager_, table, file, year, region, subregion, env) ==
  LET key == segment_key(year, region, subregion)
      left(saved, table_, found, inserted) ==
        [self |-> saved.self, file |-> saved.file, table |-> table_,
         downloaded |-> TRUE, returned |-> <<found, inserted>>]
  IN  IF dict_has(self.completed_segments, key)
        THEN bind(stats_of(self, dict_get(self.completed_segments, key)),
                  LAMBDA stats :
                    [self |-> self, table |-> table, file |-> file, downloaded |-> FALSE,
                     returned |-> <<stats.total_found, stats.total_inserted>>])
      ELSE IF ~env.download
        THEN bind(save_progress(self, key, "download_failed"),
                  LAMBDA saved : left(saved, table, 0, 0))
        ELSE bind(process_chunks(country_manager_,
                                 [table |-> table, found |-> 0, inserted |-> 0,
                                  raised |-> FALSE],
                                 read_csv_with_encoding(archive(year), chunk_size), 1,
                                 region, subregion, env.fault),
                  LAMBDA st :
                    IF st.raised
                    THEN bind(save_progress(self, key, "error"),
                              LAMBDA saved : left(saved, st.table, st.found, st.inserted))
                    ELSE bind(save_progress(
                                [self EXCEPT !.stats.total_found = @ + st.found,
                                             !.stats.total_inserted = @ + st.inserted],
                                key, "completed"),
                              LAMBDA saved : left(saved, st.table, st.found, st.inserted)))

\* process_year_for_subregion(year, region, subregion): the instance, the
\* table and the progress file it leaves, whether it called download_file,
\* and the (found, inserted) it returns.  env tells whether the download
\* succeeds and which statement raises, if any.
process_year_for_subregion(self, country_manager_, table, file, year, region, subregion, env) ==
  LET key == segment_key(year, region, subregion)
      left(saved, table_, found, inserted) ==
        [self |-> saved.self, file |-> saved.file, table |-> table_,
         downloaded |-> TRUE, returned |-> <<found, inserted>>]
  IN  IF /\ dict_has(self.completed_segments, key)
         /\ dict_get(self.completed_segments, key).status = "completed"
        THEN bind(stats_of(self, dict_get(self.completed_segments, key)),
                  LAMBDA stats :
                    [self |-> self, table |-> table, file |-> file, downloaded |-> FALSE,
                     returned |-> <<stats.total_found, stats.total_inserted>>])
      ELSE IF ~env.download
        THEN bind(save_progress(self, key, "download_failed"),
                  LAMBDA saved : left(saved, table, 0, 0))
        ELSE bind(process_chunks(country_manager_,
                                 [table |-> table, found |-> 0, inserted |-> 0,
                                  raised |-> FALSE],
                                 read_csv_with_encoding(archive(year), chunk_size), 1,
                                 region, subregion, env.fault),
                  LAMBDA st :
                    IF st.raised
                    THEN bind(save_progress(self, key, "error"),
                              LAMBDA saved : left(saved, st.table, st.found, st.inserted))
                    ELSE bind(save_progress(
                                [self EXCEPT !.stats.total_found = @ + st.found,
                                             !.stats.total_inserted = @ + st.inserted],
                                key, "completed"),
                              LAMBDA saved : left(saved, st.table, st.found, st.inserted)))

----------------------------------------------------------------------------
(* The bootstrap at work: main, run_by_subregion, process_year_for_subregion *)

\* The processes started one after the other, the statements that raise and
\* the downloads that fail in all of them are bounded.
MaxProcesses == 2
MaxBootFaults == 1
MaxDownloadFailures == 1
\* The year below which the model does not follow a loop that counts down.
MinYear == 2018

EasternAfrica == <<RegionName.AFRICA, SubRegionName.Eastern_Africa>>
WesternEurope == <<RegionName.EUROPE, SubRegionName.Western_Europe>>

\* What a call of process_year_for_subregion meets: whether download_file
\* succeeds, and the statement of insert_or_update_batch that raises, if any.
calm == [download |-> TRUE, fault |-> None]
Envs ==
  {calm, [download |-> FALSE, fault |-> None]}
    \cup {[download |-> TRUE, fault |-> <<k, 1, statement>>]
            : k \in 1..2, statement \in {"SELECT", "INSERT"}}

\* The ways main of the three scripts gets to run_by_subregion: without
\* clearing; global_bootstrap --clear, which initializes the database,
\* deletes the progress file and empties completed_segments; quick_bootstrap
\* and bootstrap_runner on 'clear', which do the first two of these.
Styles == {"resume", "clear and reset", "clear"}

\* The locals of run_by_subregion as the while loop is reached.
run_by_subregion(process, style, targets, start_year, end_year, year_increment) ==
  [pc |-> "while", process |-> process, style |-> style,
   regions_to_process |-> targets,
   start_year |-> start_year, end_year |-> end_year, year_increment |-> year_increment,
   current_start |-> start_year, current_end |-> start_year, s |-> 1, year |-> start_year]

outside_bootstrap ==
  <<df, phase, before, faults, returned, manager, module, loaded, pop_country,
    posted_date, result, workers, writer, batches, replica>>

\* The database exists and is empty, no progress file, no process yet.
BootstrapInit ==
  /\ opportunities = <<>>
  /\ progress_file = None
  /\ bootstrap = GlobalBootstrap(None)
  /\ run = [pc |-> "done", process |-> 0]
  /\ log = <<>>
  /\ df = None
  /\ phase = "idle"
  /\ before = <<>>
  /\ faults = <<>>
  /\ returned = None
  /\ manager = GlobalCountryManager
  /\ module = "global_sam_utils"
  /\ loaded = init_steps(module)
  /\ pop_country = None
  /\ posted_date = None
  /\ result = no_call
  /\ workers = <<>>
  /\ writer = 0
  /\ batches = <<>>
  /\ replica = <<>>

\* main of a script, up to the while loop of run_by_subregion, in a new
\* process after the one before ended: GlobalBootstrap(), the clearing the
\* style asks for, and the locals of the run.
Main(style, targets, start_year, end_year, year_increment) ==
  /\ run.pc = "done"
  /\ run.process < MaxProcesses
  /\ bootstrap' = IF style = "clear and reset"
                  THEN [GlobalBootstrap(progress_file) EXCEPT !.completed_segments = <<>>]
                  ELSE GlobalBootstrap(progress_file)
  /\ opportunities' = IF style = "resume" THEN opportunities ELSE <<>>
  /\ progress_file' = IF style = "resume" THEN progress_file ELSE None
  /\ run' = run_by_subregion(run.process + 1, style, targets,
                             start_year, end_year, year_increment)
  /\ UNCHANGED log
  /\ UNCHANGED outside_bootstrap

\* The head of the while loop: the next increment of years, or the end.
WhileYears ==
  /\ run.pc = "while"
  /\ run.current_start >= MinYear
  /\ run' = IF run.current_start <= run.end_year
            THEN [run EXCEPT !.pc = "for",
                             !.current_end =
                               IF run.current_start + run.year_increment - 1 < run.end_year
                               THEN run.current_start + run.year_increment - 1
                               ELSE run.end_year,
                             !.s = 1,
                             !.year = run.current_start]
            ELSE [run EXCEPT !.pc = "done"]
  /\ UNCHANGED <<opportunities, progress_file, bootstrap, log>>
  /\ UNCHANGED outside_bootstrap

\* Whether the loops over the sub-regions and over range(current_start,
\* current_end + 1) have a next pair.
in_loops == run.s <= Len(run.regions_to_process) /\ run.year <= run.current_end

\* The calls of process_year_for_subregion so far in which a statement
\* raised, and those in which the download failed.
faulty_calls == {i \in DOMAIN log : log[i].env.fault # None}
failed_downloads == {i \in DOMAIN log : ~log[i].env.download}

\* self.completed_segments[segment_key].get('status'), None where the
\* segment has no entry.
status_of(self, year, segment) ==
  LET key == segment_key(year, segment[1], segment[2])
  IN  IF dict_has(self.completed_segments, key)
      THEN dict_get(self.completed_segments, key).status
      ELSE None

\* The body of the loops: process_year_for_subregion on the next pair; log
\* keeps the call, with the status the segment has after it.
ProcessYear ==
  /\ run.pc = "for"
  /\ in_loops
  /\ LET segment == run.regions_to_process[run.s]
         call(e) == process_year_for_subregion(bootstrap, manager, opportunities,
                                               progress_file, run.year,
                                               segment[1], segment[2], e)
     IN  \E untroubled \in {call(calm)}, env \in Envs :
           \E r \in {IF env = calm THEN untroubled ELSE call(env)} :
             /\ env # calm => r # untroubled
             /\ env.fault # None => Cardinality(faulty_calls) < MaxBootFaults
             /\ ~env.download => Cardinality(failed_downloads) < MaxDownloadFailures
             /\ bootstrap' = r.self
             /\ opportunities' = r.table
             /\ progress_file' = r.file
             /\ log' = Append(log, [process |-> run.process, style |-> run.style,
                                    year |-> run.year,
                                    segment |-> segment, env |-> env,
                                    downloaded |-> r.downloaded, returned |-> r.returned,
                                    status |-> status_of(r.self, run.year, segment)])
  /\ run' = IF run.year < run.current_end
            THEN [run EXCEPT !.year = @ + 1]
            ELSE [run EXCEPT !.s = @ + 1, !.year = run.current_start]
  /\ UNCHANGED outside_bootstrap

\* The end of the loops over the sub-regions: current_start = current_end + 1.
EndIncrement ==
  /\ run.pc = "for"
  /\ ~in_loops
  /\ run' = [run EXCEPT !.pc = "while", !.current_start = run.current_end + 1]
  /\ UNCHANGED <<opportunities, progress_file, bootstrap, log>>
  /\ UNCHANGED outside_bootstrap

\* The runs the scripts make over the two years and two sub-regions of the
\* model, with the year_increment that is the default.
BootstrapNext ==
  \/ \E style \in Styles, targets \in {<<EasternAfrica>>, <<EasternAfrica, WesternEurope>>} :
       Main(style, targets, 2020, 2021, 5)
  \/ WhileYears
  \/ ProcessYear
  \/ EndIncrement

BootstrapSpec == BootstrapInit /\ [][BootstrapNext]_vars

----------------------------------------------------------------------------
(* Claims about the checkpoints *)

\* C23: a call of process_year_for_subregion skips the segment, with no
\* download and no change of the store, exactly when the instance holds the
\* status "completed" for it; with no entry or any other status the segment
\* is downloaded and processed again.
C23_CheckpointUse ==
  [][ Len(log') = Len(log) + 1 =>
        LET call == log'[Len(log')]
            status == status_of(bootstrap, call.year, call.segment)
        IN  /\ call.downloaded <=> status # "completed"
            /\ status = "completed" => opportunities' = opportunities
    ]_vars

\* A segment whose download failed in one process was downloaded again by
\* the next one, which found the status "download_failed" in the progress
\* file; and a segment that was completed has been skipped.
C23_Witness ==
  /\ \E i, j \in DOMAIN log :
       /\ i < j
       /\ log[i].year = log[j].year /\ log[i].segment = log[j].segment
       /\ ~log[i].env.download
       /\ log[j].style = "resume"
       /\ log[j].downloaded
  /\ \E i, j \in DOMAIN log :
       /\ i < j
       /\ log[i].year = log[j].year /\ log[i].segment = log[j].segment
       /\ log[i].env = calm /\ log[i].downloaded
       /\ ~log[j].downloaded

\* The NoticeIds of the rows of a segment's file that resolve to a country
\* of the segment's sub-region and have a valid NoticeId.
segment_notice_ids(year, segment) ==
  LET rows == filter_for_subregion(manager, archive(year), segment[1], segment[2])
  IN  {notice_id_of(rows[i]) : i \in DOMAIN rows} \ invalid_notice_ids

\* C25: when a call of process_year_for_subregion marks its segment
\* "completed", every row of the segment's file that resolves to a country of
\* the sub-region and has a valid NoticeId is in the store.
C25_CompletedIsStored ==
  [][ Len(log') = Len(log) + 1 =>
        LET call == log'[Len(log')]
        IN  call.downloaded /\ call.status = "completed" =>
              \A notice_id \in segment_notice_ids(call.year, call.segment) :
                 stored(opportunities', notice_id)
    ]_vars

\* C26: in a process that cleared the database (initialize_database and the
\* deletion of the progress file), run_by_subregion skips no segment: every
\* call of process_year_for_subregion downloads and processes its segment.
C26_ClearedRunSkipsNothing ==
  \A i \in DOMAIN log : log[i].style # "resume" => log[i].downloaded

\* The call that last processed the segment of call j and marked it
\* completed, 0 if there is none.
processed_before(j) ==
  LET earlier == {i \in 1..(j - 1) :
                    /\ log[i].year = log[j].year /\ log[i].segment = log[j].segment
                    /\ log[i].downloaded /\ log[i].status = "completed"}
  IN  IF earlier = {} THEN 0 ELSE CHOOSE i \in earlier : \A k \in earlier : k <= i

\* C30: a call of process_year_for_subregion that skips its segment returns
\* the (found, inserted) that the call that processed the segment returned.
C30_SkipReturnsTheOriginal ==
  \A j \in DOMAIN log :
     ~log[j].downloaded =>
        /\ processed_before(j) # 0
        /\ log[j].returned = log[processed_before(j)].returned

----------------------------------------------------------------------------
(* run_by_subregion on the arguments a caller can give it *)

\* The year_increment values of the model: those of the scripts' own calls
\* (3 and 5 cover the two years like 2 does), a smaller one, and the zero and
\* the negative number that --year-increment and the custom range accept.
YearIncrements == {-1, 0, 1, 2}
YearRanges == {<<2020, 2020>>, <<2020, 2021>>}

\* A fresh instance on an empty database, at the head of the while loop.
RunInit ==
  /\ \E targets \in {<<EasternAfrica>>, <<EasternAfrica, WesternEurope>>},
        years \in YearRanges, year_increment \in YearIncrements :
       run = run_by_subregion(1, "resume", targets, years[1], years[2], year_increment)
  /\ opportunities = <<>>
  /\ progress_file = None
  /\ bootstrap = GlobalBootstrap(None)
  /\ log = <<>>
  /\ df = None
  /\ phase = "idle"
  /\ before = <<>>
  /\ faults = <<>>
  /\ returned = None
  /\ manager = GlobalCountryManager
  /\ module = "global_sam_utils"
  /\ loaded = init_steps(module)
  /\ pop_country = None
  /\ posted_date = None
  /\ result = no_call
  /\ workers = <<>>
  /\ writer = 0
  /\ batches = <<>>
  /\ replica = <<>>

RunNext == WhileYears \/ ProcessYear \/ EndIncrement

RunSpec == RunInit /\ [][RunNext]_vars

\* The interpreter keeps executing the loop while it has a next statement:
\* weak fairness of each of the three steps.  That of ProcessYear is written
\* out, with the condition under which the step is enabled (the download
\* and the statements of a call may always succeed) in place of ENABLED.
FairRunSpec ==
  /\ RunSpec
  /\ WF_vars(WhileYears)
  /\ WF_vars(EndIncrement)
  /\ ([]<>~(run.pc = "for" /\ in_loops) \/ []<><<ProcessYear>>_vars)

\* The calls of process_year_for_subregion made for a segment and a year.
calls_for(segment, year) ==
  {i \in DOMAIN log : log[i].segment = segment /\ log[i].year = year}

\* run_by_subregion has ended having called process_year_for_subregion
\* exactly once for each selected sub-region and each year of the range.
ended_once_each ==
  /\ run.pc = "done"
  /\ \A s \in DOMAIN run.regions_to_process, year \in run.start_year..run.end_year :
       Cardinality(calls_for(run.regions_to_process[s], year)) = 1
  /\ Len(log) = Len(run.regions_to_process) * (run.end_year - run.start_year + 1)

\* C27: for every start_year <= end_year and every integer year_increment,
\* run_by_subregion terminates, and when it ends it has called
\* process_year_for_subregion exactly once for each selected sub-region and
\* each year in [start_year, end_year].
C27_RunTerminates == <>ended_once_each

====
